---------------------------- MODULE Spec2Model ----------------------------
(***************************************************************************)
(* State-machine model of the Paras NFT series contract                    *)
(* (src/paras-nft-contract/src/lib.rs).                                    *)
(*                                                                         *)
(* Conventions                                                             *)
(*  - Rust String values (series ids, token ids) are sequences of          *)
(*    one-character strings, so that format! and split(':') are computed.  *)
(*  - Option<T> is a sequence: <<>> is None, <<x>> is Some(x).             *)
(*  - u64 values are integers read in two's complement: a negative n       *)
(*    stands for 2^64 + n (so -1 is u64::MAX).  Wrapping subtraction is    *)
(*    then plain subtraction, and the unsigned order is U64Lt.             *)
(*  - A call that panics is rolled back by the runtime: it leaves the      *)
(*    contract state as it was and only the call record `last` changes.    *)
(***************************************************************************)
EXTENDS Integers, Sequences, FiniteSets, TLC

(* ------------------------------ bounds -------------------------------- *)
\* most series the registry is filled with
MaxSeries == 2
\* most series created where each one is also minted from or priced
MaxBusySeries == 1
\* most successful mints over all series
MaxMinted == 2
\* largest copies cap / decrease amount offered as an input
MaxCopies == 2
\* size of the draw pool given to Contract::new (max_supply_raffle)
MaxSupplyRaffle == 1
\* number of clock positions beyond the first (each half a second apart)
MaxTicks == 3
\* transfers with payout a behaviour may hold
MaxTransfers == 1
\* instances minted where every event-writing operation is exercised
MaxEventTokens == 1
\* nft_resolve_transfer callbacks in flight at one time
MaxPending == 1
\* tokens minted where payouts are checked
MaxPayoutTokens == 1

(* ------------------------- program constants -------------------------- *)
TOKEN_DELIMETER == ":"
\* MAX_PRICE = 1_000_000_000 * 10^24 yoctoNEAR: the factor in NEAR units
MAX_PRICE_NEAR == 1000000000
\* basis-point ceiling of set_transaction_fee
FEE_LIMIT == 10000
\* divisor of every basis-point computation
BPS_DENOM == 10000
\* nanoseconds per second, the divisor of to_sec
NANOS_PER_SEC == 1000000000
\* current_fee passed by new_default_meta
DEFAULT_FEE == 500
\* ceiling of a series' royalty sum, in basis points, and of its entries
ROYALTY_CEILING == 9000
MAX_ROYALTY_ACCOUNTS == 10

(* ------------------------------ accounts ------------------------------ *)
\* tokens.owner_id, fixed by Contract::new
OWNER == "alice"
\* env::current_account_id(), the account the contract is deployed on
CONTRACT == "contract"
Accounts == {"alice", "bob"}
TREASURY == "treasury"

(* ------------------------------ options ------------------------------- *)
None == <<>>
Some(x) == <<x>>
IsSome(o) == o # <<>>
Unwrap(o) == o[1]
UnwrapOr(o, d) == IF o = <<>> THEN d ELSE o[1]

(* --------------------------- u64 arithmetic --------------------------- *)
U64_MAX == -1
U64Lt(a, b) == IF (a >= 0) = (b >= 0) THEN a < b ELSE b < 0
U64Le(a, b) == a = b \/ U64Lt(a, b)

\* u32 values are read the same way on 32 bits: a negative n stands for
\* 2^32 + n
U32_MAX == -1
MIN_I32 == (-2147483647) - 1
MAX_I32 == 2147483647
\* whether a + b leaves the u32 range
U32Carry(a, b) ==
    \/ a < 0 /\ b < 0
    \/ (a < 0) # (b < 0) /\ a + b >= 0
\* a + b modulo 2^32
U32WrapAdd(a, b) ==
    IF a < 0 /\ b < 0
    THEN IF a < MIN_I32 - b THEN (a - MIN_I32) + (b - MIN_I32) ELSE a + b
    ELSE IF a >= 0 /\ b >= 0
    THEN IF a > MAX_I32 - b THEN (a + MIN_I32) + (b + MIN_I32) ELSE a + b
    ELSE a + b
\* a - b modulo 2^32
U32WrapSub(a, b) ==
    IF a >= 0 /\ b < 0 /\ a > MAX_I32 + b THEN (a + MIN_I32) - (b - MIN_I32)
    ELSE IF a < 0 /\ b >= 0 /\ a < MIN_I32 + b THEN (a - MIN_I32) - (b + MIN_I32)
    ELSE a - b
\* a <= b on u32
U32Le(a, b) == IF (a >= 0) = (b >= 0) THEN a <= b ELSE a >= 0

(* ------------------------------ strings ------------------------------- *)
Digit == <<"0", "1", "2", "3", "4", "5", "6", "7", "8", "9">>

RECURSIVE Format(_)
\* format!("{}", n) for a non-negative integer
Format(n) ==
    IF n < 10 THEN <<Digit[n + 1]>>
    ELSE Format(n \div 10) \o <<Digit[(n % 10) + 1]>>

\* token_id.split(TOKEN_DELIMETER).next(): the text before the first ':'
RECURSIVE SplitFirst(_)
SplitFirst(s) ==
    IF s = <<>> \/ Head(s) = TOKEN_DELIMETER THEN <<>>
    ELSE <<Head(s)>> \o SplitFirst(Tail(s))

\* the second field of token_id.split(TOKEN_DELIMETER): the text between the
\* first ':' and the next one
RECURSIVE SplitSecond(_)
SplitSecond(s) ==
    IF s = <<>> THEN <<>>
    ELSE IF Head(s) = TOKEN_DELIMETER THEN SplitFirst(Tail(s))
    ELSE SplitSecond(Tail(s))

\* elements of a sequence
Range(s) == {s[i] : i \in 1..Len(s)}

(* ------------------------------- state -------------------------------- *)
VARIABLES
    block_timestamp,              \* env::block_timestamp(), nanoseconds
    promises,                     \* scheduled nft_resolve_transfer callbacks not yet run
    transaction_fee,              \* TransactionFee {next_fee, start_time, current_fee}
    market_data_transaction_fee,  \* series id -> fee snapshot
    token_series_by_id,           \* series id -> TokenSeries
    owner_by_id,                  \* tokens.owner_by_id
    tokens_per_owner,             \* tokens.tokens_per_owner
    token_series_id_minted,       \* global minted counter
    raffle,                       \* draw pool: the indices not yet drawn
    seller_by_id,                 \* how many sales each account has made through nft_transfer_payout
    account_id_og,                \* OG mint allowances
    approvals_by_id,              \* tokens.approvals_by_id
    next_approval_id_by_id,       \* tokens.next_approval_id_by_id
    last,                         \* record of the most recent call and its outcome
    created_log,                  \* history: id and cap of each successful creation
    minted_log,                   \* history: per series, token ids returned by mints
    snapshot_log                  \* history: per series, settled fee seen at last create/set_price

contract == <<transaction_fee, market_data_transaction_fee, token_series_by_id,
              owner_by_id, tokens_per_owner, token_series_id_minted, raffle, seller_by_id,
              account_id_og, approvals_by_id, next_approval_id_by_id>>
history == <<created_log, minted_log, snapshot_log>>
\* what the runtime holds outside the contract's storage
runtime == <<block_timestamp, promises>>
vars == <<runtime, contract, last, history>>

\* function update that also extends the domain (map insert)
Put(f, k, v) == [x \in (DOMAIN f) \cup {k} |-> IF x = k THEN v ELSE f[x]]
\* map remove
Del(f, k) == [x \in (DOMAIN f) \ {k} |-> f[x]]

(* ---------------------------- call records ---------------------------- *)
\* what a call returned to the environment: its name, caller, series, outcome,
\* returned values, and the transfers it issued (to the treasury, to the series
\* creator); for the fee calls also their arguments and the schedule they found;
\* for a creation or mint that succeeded the deposit attached and the refund
\* transferred back to the caller
Call(op, caller, sid, ok, err, ret, num, treasury, creator) ==
    [op |-> op, caller |-> caller, sid |-> sid, ok |-> ok, err |-> err,
     ret |-> ret, num |-> num, treasury |-> treasury, creator |-> creator,
     args |-> <<>>, before |-> <<>>, payout |-> << >>, events |-> <<>>,
     deposit |-> 0, refund |-> 0, transfers |-> <<>>]

Ok(op, caller, sid, ret, num) == Call(op, caller, sid, TRUE, "", ret, num, 0, 0)

\* a panic: the runtime discards every state change of the call
Fail(op, caller, sid, err) ==
    /\ last' = Call(op, caller, sid, FALSE, err, <<>>, 0, 0, 0)
    /\ UNCHANGED <<contract, history>>

\* a panic of a call whose arguments are kept in the record
FailArgs(op, caller, sid, err, args) ==
    /\ last' = [Call(op, caller, sid, FALSE, err, <<>>, 0, 0, 0) EXCEPT !.args = args]
    /\ UNCHANGED <<contract, history>>

(* ------------------------------- events ------------------------------- *)
\* NearEvent::log_nft_mint: one nft_mint event (the memo is left out)
log_nft_mint(owner_id, token_ids) ==
    [event |-> "nft_mint", old_owner_id |-> None, new_owner_id |-> Some(owner_id),
     token_ids |-> token_ids, authorized_id |-> None]

\* NearEvent::log_nft_burn: one nft_burn event
log_nft_burn(owner_id, token_ids, authorized_id) ==
    [event |-> "nft_burn", old_owner_id |-> Some(owner_id), new_owner_id |-> None,
     token_ids |-> token_ids, authorized_id |-> authorized_id]

\* NearEvent::log_nft_transfer: one nft_transfer event
log_nft_transfer(old_owner_id, new_owner_id, token_ids, authorized_id) ==
    [event |-> "nft_transfer", old_owner_id |-> Some(old_owner_id),
     new_owner_id |-> Some(new_owner_id), token_ids |-> token_ids,
     authorized_id |-> authorized_id]

\* env::log of the JSON record a series operation writes: its type and the
\* series it names
log_series(type, token_series_id) == [event |-> type, token_series_id |-> token_series_id]

\* `if sender_id != previous_owner_id { Some(sender_id) } else { None }`
authorized_id(sender_id, previous_owner_id) ==
    IF sender_id # previous_owner_id THEN Some(sender_id) ELSE None

(* ------------------------------- inputs ------------------------------- *)
\* a U128 argument: hi NEAR and lo yoctoNEAR, i.e. hi * 10^24 + lo
U128(hi, lo) == [hi |-> hi, lo |-> lo]
\* a ceiling that admits MAX_PRICE itself
BelowMaxPrice_inclusive(p) == p.hi < MAX_PRICE_NEAR \/ (p.hi = MAX_PRICE_NEAR /\ p.lo = 0)

\* the comparison `price.0 < MAX_PRICE` (lo is below 10^24)
BelowMaxPrice(p) == p.hi < MAX_PRICE_NEAR
\* the stored Balance of a price argument, kept in the same two limbs
Balance(p) == p
\* the comparison `attached_deposit >= price` of nft_buy (a deposit the model
\* offers is below 10^24)
DepositCovers(deposit, price) == price.hi = 0 /\ deposit >= price.lo

\* list price used by the purchase scenarios, in yoctoNEAR
PRICE == 10000
PriceInputs == {None, Some(U128(0, PRICE)), Some(U128(MAX_PRICE_NEAR, 0))}
\* caps given at creation: none, zero, the largest; the caps between are
\* reached by nft_decrease_series_copies
CopiesInputs == {None, Some(0), Some(MaxCopies)}
\* decrease_copies arguments: one, and more than any cap
DecreaseInputs == {1, MaxCopies + 1}
TitleInputs == {None, Some("T")}
\* royalty arguments: none, one account at 10%, one account above the ceiling
RoyaltyInputs == {None, Some([bob |-> 1000]), Some([bob |-> 9001])}
\* royalty maps at and around the limits: ten accounts summing to the ceiling,
\* eleven accounts, and two entries whose sum leaves the u32 range
RoyaltyKeys == {"r01", "r02", "r03", "r04", "r05", "r06", "r07", "r08", "r09", "r10"}
RoyaltyTen == [k \in RoyaltyKeys |-> ROYALTY_CEILING \div MAX_ROYALTY_ACCOUNTS]
RoyaltyEleven == [k \in RoyaltyKeys \cup {"r11"} |-> 1]
RoyaltyWrapping == [bob |-> U32_MAX, carol |-> 2]
\* explicit identifiers offered to nft_create_series_custom
CustomIds == {<<"1">>, <<"2">>, <<"7">>}
\* storage cost charged by the environment for a call that adds state
STORAGE_COST == 2
\* attached deposits offered
Deposits == {0, 1, STORAGE_COST, PRICE + STORAGE_COST}
\* clock positions: every half second from 0
Timestamps == {k * (NANOS_PER_SEC \div 2) : k \in 0..MaxTicks}
\* fee arguments of set_transaction_fee and Contract::new
FeeInputs == {100, FEE_LIMIT - 1, FEE_LIMIT}
StartTimeInputs == {None} \cup {Some(t) : t \in 0..((MaxTicks \div 2) + 1)}

(* ------------------------------ helpers ------------------------------- *)
\* fn to_sec (the u32 cast is the identity on every modelled timestamp)
to_sec(timestamp) == timestamp \div NANOS_PER_SEC

RECURSIVE SumOver(_, _)
SumOver(f, keys) ==
    IF keys = {} THEN 0
    ELSE LET k == CHOOSE x \in keys : TRUE
         IN f[k] + SumOver(f, keys \ {k})

\* fn refund_deposit: "" when the deposit covers the cost, else the panic
refund_deposit(attached_deposit, required_cost, extra_spend) ==
    IF required_cost <= attached_deposit - extra_spend THEN ""
    ELSE "Must attach yoctoNEAR to cover storage"

\* the refund transfer refund_deposit issues (0: none)
refund_amount(attached_deposit, required_cost, extra_spend) ==
    LET refund == attached_deposit - extra_spend - required_cost
    IN IF refund > 1 THEN refund ELSE 0

(* --------------------------- fee scheduler ---------------------------- *)
\* a settlement that activates only after the activation second has passed
calculate_current_transaction_fee_late(tf, timestamp) ==
    IF IsSome(tf.next_fee) /\ to_sec(timestamp) > Unwrap(tf.start_time)
    THEN [current_fee |-> Unwrap(tf.next_fee), next_fee |-> None, start_time |-> None]
    ELSE tf

\* the TransactionFee that calculate_current_transaction_fee leaves behind
calculate_current_transaction_fee(tf, timestamp) ==
    IF IsSome(tf.next_fee) /\ to_sec(timestamp) >= Unwrap(tf.start_time)
    THEN [current_fee |-> Unwrap(tf.next_fee), next_fee |-> None, start_time |-> None]
    ELSE tf

\* pub fn calculate_current_transaction_fee, called as a transaction
CalculateCurrentTransactionFee(caller) ==
    LET tf == calculate_current_transaction_fee(transaction_fee, block_timestamp)
    IN /\ transaction_fee' = tf
       /\ last' = [Ok("calculate_current_transaction_fee", caller, <<>>, <<>>,
                      tf.current_fee) EXCEPT !.before = transaction_fee]
       /\ UNCHANGED <<runtime, market_data_transaction_fee, token_series_by_id,
                      owner_by_id, tokens_per_owner, token_series_id_minted, raffle, seller_by_id,
                      account_id_og, approvals_by_id, next_approval_id_by_id, history>>

\* a range check that lets 10_000 through
fee_in_range_inclusive(next_fee) == next_fee <= FEE_LIMIT

\* the range check of set_transaction_fee
fee_in_range(next_fee) == next_fee < FEE_LIMIT

\* an immediate change that keeps the pending pair
immediate_fee_keeping(tf, next_fee) == [tf EXCEPT !.current_fee = next_fee]

\* the schedule set_transaction_fee writes when no start_time is given
immediate_fee(tf, next_fee) ==
    [current_fee |-> next_fee, next_fee |-> None, start_time |-> None]

\* the activation-time check of set_transaction_fee
starts_in_future(start_time, timestamp) == start_time > to_sec(timestamp)

\* pub fn set_transaction_fee
set_transaction_fee(caller, deposit, next_fee, start_time) ==
    LET op == "set_transaction_fee"
        Rec(ok, err) ==
            [Call(op, caller, <<>>, ok, err, <<>>, next_fee, 0, 0)
                EXCEPT !.args = <<deposit, start_time>>, !.before = transaction_fee]
        Panic(err) == last' = Rec(FALSE, err) /\ UNCHANGED <<contract, history>>
    IN
    /\ UNCHANGED runtime
    /\ IF deposit # 1 THEN Panic("Requires attached deposit of exactly 1 yoctoNEAR")
       ELSE IF caller # OWNER THEN Panic("Paras: Owner only")
       ELSE IF ~fee_in_range(next_fee)
            THEN Panic("Paras: transaction fee is more than 10_000")
       ELSE IF start_time = None
            THEN /\ transaction_fee' = immediate_fee(transaction_fee, next_fee)
                 /\ last' = Rec(TRUE, "")
                 /\ UNCHANGED <<market_data_transaction_fee, token_series_by_id,
                                owner_by_id, tokens_per_owner, token_series_id_minted,
                                raffle, seller_by_id, account_id_og, approvals_by_id,
                                next_approval_id_by_id, history>>
       ELSE IF ~starts_in_future(Unwrap(start_time), block_timestamp)
            THEN Panic("start_time is less than current block_timestamp")
       ELSE /\ transaction_fee' = [transaction_fee EXCEPT !.next_fee = Some(next_fee),
                                                           !.start_time = start_time]
            /\ last' = Rec(TRUE, "")
            /\ UNCHANGED <<market_data_transaction_fee, token_series_by_id,
                           owner_by_id, tokens_per_owner, token_series_id_minted,
                           raffle, seller_by_id, account_id_og, approvals_by_id,
                           next_approval_id_by_id, history>>

\* pub fn get_transaction_fee (view)
get_transaction_fee == transaction_fee

\* pub fn get_market_data_transaction_fee (view)
get_market_data_transaction_fee(token_series_id) ==
    IF token_series_id \in DOMAIN market_data_transaction_fee
    THEN market_data_transaction_fee[token_series_id]
    ELSE transaction_fee.current_fee

\* the value pub fn calculate_market_data_transaction_fee returns
calculate_market_data_transaction_fee(token_series_id) ==
    IF token_series_id \in DOMAIN market_data_transaction_fee
    THEN market_data_transaction_fee[token_series_id]
    ELSE calculate_current_transaction_fee(transaction_fee, block_timestamp).current_fee

\* the environment's clock moves on between calls
AdvanceTime ==
    /\ \E t \in Timestamps : t > block_timestamp /\ block_timestamp' = t
    /\ last' = Call("advance_time", "", <<>>, TRUE, "", <<>>, 0, 0, 0)
    /\ UNCHANGED <<promises, contract, history>>

(* --------------------------- series registry -------------------------- *)
\* the settled fee an observer computes from the schedule and the clock
ObservedFee(tf, timestamp) ==
    IF IsSome(tf.next_fee) /\ to_sec(timestamp) >= Unwrap(tf.start_time)
    THEN Unwrap(tf.next_fee) ELSE tf.current_fee

\* total_perpetual += *v over the entries named: the u32 sum modulo 2^32 and
\* whether an addition left the u32 range
RECURSIVE royalty_total(_, _)
royalty_total(r, keys) ==
    IF keys = {} THEN [sum |-> 0, overflow |-> FALSE]
    ELSE LET k == CHOOSE x \in keys : TRUE
             rest == royalty_total(r, keys \ {k})
         IN [sum |-> U32WrapAdd(rest.sum, r[k]),
             overflow |-> rest.overflow \/ U32Carry(rest.sum, r[k])]

\* the assertion total_perpetual <= 9000
royalty_within_ceiling(total_perpetual) == U32Le(total_perpetual, ROYALTY_CEILING)

\* royalty validation of both creation calls: "" or the panic; overflow_checks
\* is the build's setting
royalty_error(royalty, overflow_checks) ==
    LET r == UnwrapOr(royalty, << >>)
        total_accounts == Cardinality(DOMAIN r)
        total == royalty_total(r, DOMAIN r)
    IN IF total.overflow /\ overflow_checks THEN "attempt to add with overflow"
       ELSE IF total_accounts > MAX_ROYALTY_ACCOUNTS
            THEN "Paras: royalty exceeds 10 accounts"
       ELSE IF ~royalty_within_ceiling(total.sum)
            THEN "Paras Exceeds maximum royalty -> 9000"
       ELSE ""

\* a creator check that lets any creator_id through
creator_allowed_any(creator_id, caller) == TRUE

\* the creator_id assertion of both creation calls
creator_allowed(creator_id, caller) ==
    creator_id = None \/ Unwrap(creator_id) = caller

\* an identifier counted from the registry size itself
next_series_id_zero_based == Format(Cardinality(DOMAIN token_series_by_id))

\* the identifier nft_create_series assigns
next_series_id == Format(Cardinality(DOMAIN token_series_by_id) + 1)

\* the duplicate check of nft_create_series_custom
custom_id_taken(token_series_id) == token_series_id \in DOMAIN token_series_by_id

\* a creation that does not look the identifier up
auto_id_unchecked(token_series_id) == FALSE

\* the duplicate check of nft_create_series
auto_id_taken(token_series_id) == token_series_id \in DOMAIN token_series_by_id

\* body shared by nft_create_series and nft_create_series_custom;
\* overflow_checks is the build's setting
create_series(op, taken, caller, token_series_id, creator_id, token_metadata, price, royalty, deposit, overflow_checks) ==
    LET Rec(ok, err, ret, num) ==
            [Call(op, caller, token_series_id, ok, err, ret, num, 0, 0)
                EXCEPT !.args = <<creator_id, token_metadata, price, royalty, deposit>>,
                       !.before = token_series_by_id,
                       !.events = IF ok THEN <<log_series("nft_create_series", token_series_id)>>
                                  ELSE <<>>]
        Panic(err) == last' = Rec(FALSE, err, <<>>, 0) /\ UNCHANGED <<contract, history>>
        \* a panic after env::log: the record is already in the call's log
        PanicAfterLog(err) ==
            /\ last' = [Rec(FALSE, err, <<>>, 0) EXCEPT
                            !.events = <<log_series("nft_create_series", token_series_id)>>]
            /\ UNCHANGED <<contract, history>>
    IN
    /\ UNCHANGED runtime
    /\ IF caller # OWNER THEN Panic("Paras: Only owner")
       ELSE IF ~creator_allowed(creator_id, caller)
            THEN Panic("Paras: Caller is not creator_id")
       ELSE IF taken THEN Panic("Paras: duplicate token_series_id")
       ELSE IF token_metadata.title = None
            THEN Panic("Paras: token_metadata.title is required")
       ELSE IF royalty_error(royalty, overflow_checks) # ""
            THEN Panic(royalty_error(royalty, overflow_checks))
       ELSE IF IsSome(price) /\ ~BelowMaxPrice(Unwrap(price))
            THEN Panic("Paras: price higher than MAX_PRICE")
       ELSE IF refund_deposit(deposit, STORAGE_COST, 0) # ""
            THEN PanicAfterLog(refund_deposit(deposit, STORAGE_COST, 0))
       ELSE LET tf == calculate_current_transaction_fee(transaction_fee, block_timestamp)
            IN /\ Cardinality(DOMAIN token_series_by_id) < MaxSeries
               /\ token_series_by_id' = Put(token_series_by_id, token_series_id,
                      [metadata |-> token_metadata,
                       creator_id |-> caller,
                       tokens |-> <<>>,
                       price |-> IF IsSome(price) THEN Some(Balance(Unwrap(price))) ELSE None,
                       is_mintable |-> TRUE,
                       royalty |-> UnwrapOr(royalty, << >>)])
               /\ transaction_fee' = tf
               /\ market_data_transaction_fee' =
                      Put(market_data_transaction_fee, token_series_id, tf.current_fee)
               /\ last' = [Rec(TRUE, "", token_series_id, tf.current_fee) EXCEPT
                               !.deposit = deposit,
                               !.refund = refund_amount(deposit, STORAGE_COST, 0)]
               /\ created_log' = Append(created_log,
                      [id |-> token_series_id, copies |-> token_metadata.copies])
               /\ snapshot_log' = Put(snapshot_log, token_series_id,
                                      ObservedFee(transaction_fee, block_timestamp))
               /\ UNCHANGED <<owner_by_id, tokens_per_owner, token_series_id_minted,
                              raffle, seller_by_id, account_id_og, approvals_by_id,
                              next_approval_id_by_id, minted_log>>

\* pub fn nft_create_series
nft_create_series(caller, creator_id, token_metadata, price, royalty, deposit, overflow_checks) ==
    create_series("nft_create_series", auto_id_taken(next_series_id), caller,
                  next_series_id, creator_id, token_metadata, price, royalty, deposit,
                  overflow_checks)

\* pub fn nft_create_series_custom
nft_create_series_custom(caller, token_series_id, creator_id, token_metadata, price, royalty, deposit, overflow_checks) ==
    create_series("nft_create_series_custom", custom_id_taken(token_series_id), caller,
                  token_series_id, creator_id, token_metadata, price, royalty, deposit,
                  overflow_checks)

(* -------------------------------- mint -------------------------------- *)
\* the edition number _nft_mint_series gives the next token of a series
edition_number(num_tokens) == num_tokens + 1

\* a mint that does not look at the flag
mint_allowed_always(token_series) == TRUE

\* the mintability assertion of _nft_mint_series
mint_allowed(token_series) == token_series.is_mintable

\* the supply assertion of _nft_mint_series
supply_left(num_tokens, max_copies) == U64Lt(num_tokens, max_copies)

\* whether the mint being made closes the series
closes_series(num_tokens, max_copies) == U64Le(max_copies, num_tokens + 1)

\* UnorderedSet::insert on the series' token set (kept in insertion order)
set_insert(tokens, token_id) ==
    IF token_id \in Range(tokens) THEN tokens ELSE Append(tokens, token_id)

\* a write-back that also takes the series off sale
minted_series_unpriced(token_series, num_tokens, max_copies, token_id) ==
    [token_series EXCEPT !.price = None, !.tokens = set_insert(@, token_id)]

\* the series record _nft_mint_series writes back: the flag cleared by the
\* mint that reaches the cap, the new token in the set, the rest as read
minted_series(token_series, num_tokens, max_copies, token_id) ==
    [token_series EXCEPT
        !.is_mintable = IF closes_series(num_tokens, max_copies) THEN FALSE ELSE @,
        !.tokens = set_insert(@, token_id)]

\* fn _nft_mint_series: the panic ("" if none), the token id and the series
\* record it writes back
mint_series(token_series_id) ==
    IF token_series_id \notin DOMAIN token_series_by_id
    THEN [err |-> "Paras: Token series not exist", token_id |-> <<>>, series |-> << >>]
    ELSE LET token_series == token_series_by_id[token_series_id]
             num_tokens == Len(token_series.tokens)
             max_copies == UnwrapOr(token_series.metadata.copies, U64_MAX)
             token_id == token_series_id \o <<TOKEN_DELIMETER>>
                             \o Format(edition_number(num_tokens))
         IN IF ~mint_allowed(token_series)
            THEN [err |-> "Paras: Token series is not mintable", token_id |-> <<>>,
                  series |-> token_series]
            ELSE IF ~supply_left(num_tokens, max_copies)
            THEN [err |-> "Series supply maxed", token_id |-> <<>>,
                  series |-> token_series]
            ELSE [err |-> "", token_id |-> token_id,
                  series |-> minted_series(token_series, num_tokens, max_copies, token_id)]

\* an owner index the new token is not put into
owner_tokens_after_mint_skipped(token_ids, token_id) == token_ids

\* the receiver's token set after _nft_mint_series
owner_tokens_after_mint(token_ids, token_id) == token_ids \cup {token_id}

\* a mint that leaves the global counter alone
token_series_id_minted_kept(minted) == minted

\* `self.token_series_id_minted = self.token_series_id_minted + 1`
token_series_id_minted_next(minted) == minted + 1

\* the ledger writes of _nft_mint_series
record_mint(token_series_id, m, receiver_id) ==
    /\ token_series_id_minted < MaxMinted
    /\ token_series_by_id' = Put(token_series_by_id, token_series_id, m.series)
    /\ owner_by_id' = Put(owner_by_id, m.token_id, receiver_id)
    /\ tokens_per_owner' = Put(tokens_per_owner, receiver_id,
           owner_tokens_after_mint(IF receiver_id \in DOMAIN tokens_per_owner
                                   THEN tokens_per_owner[receiver_id] ELSE {},
                                   m.token_id))
    /\ token_series_id_minted' = token_series_id_minted_next(token_series_id_minted)
    /\ minted_log' = Put(minted_log, token_series_id,
           Append(IF token_series_id \in DOMAIN minted_log
                  THEN minted_log[token_series_id] ELSE <<>>, m.token_id))
    /\ UNCHANGED <<created_log, snapshot_log>>

\* a panic that keeps what the call had written
panic_commits_writes(before, written) == written

\* what a storage item holds once a call has panicked: the runtime commits
\* none of the writes the call made before the panic
panic_commits(before, written) == before

\* a panic after the call has drawn from the pool (pool is what the draw left)
PanicAfterDraw(op, caller, sid, err, pool) ==
    /\ last' = Call(op, caller, sid, FALSE, err, <<>>, 0, 0, 0)
    /\ raffle' = panic_commits(raffle, pool)
    /\ UNCHANGED <<transaction_fee, market_data_transaction_fee, token_series_by_id,
                   owner_by_id, tokens_per_owner, token_series_id_minted, seller_by_id,
                   account_id_og, approvals_by_id, next_approval_id_by_id, history>>

\* a panic after _nft_mint_series has written the mint m for receiver_id
\* (pool is what an earlier draw left, the pool itself if there was none)
PanicAfterMint(op, caller, sid, err, m, receiver_id, pool) ==
    /\ last' = Call(op, caller, sid, FALSE, err, <<>>, 0, 0, 0)
    /\ token_series_by_id' =
           panic_commits(token_series_by_id, Put(token_series_by_id, sid, m.series))
    /\ owner_by_id' = panic_commits(owner_by_id, Put(owner_by_id, m.token_id, receiver_id))
    /\ tokens_per_owner' =
           panic_commits(tokens_per_owner,
               Put(tokens_per_owner, receiver_id,
                   owner_tokens_after_mint(IF receiver_id \in DOMAIN tokens_per_owner
                                           THEN tokens_per_owner[receiver_id] ELSE {},
                                           m.token_id)))
    /\ token_series_id_minted' =
           panic_commits(token_series_id_minted,
                         token_series_id_minted_next(token_series_id_minted))
    /\ raffle' = panic_commits(raffle, pool)
    /\ UNCHANGED <<transaction_fee, market_data_transaction_fee, seller_by_id,
                   account_id_og, approvals_by_id, next_approval_id_by_id, history>>

\* a treasury share taken from the live fee
for_treasury_live(token_series_id, price) ==
    (price * calculate_current_transaction_fee(transaction_fee, block_timestamp).current_fee)
        \div BPS_DENOM

\* the treasury share nft_buy computes for a series
for_treasury(token_series_id, price) ==
    (price * calculate_market_data_transaction_fee(token_series_id)) \div BPS_DENOM

\* the transfers nft_buy issues: the price less the treasury share to the
\* series creator, and the share to the treasury `if for_treasury != 0`
\* (a negative amount stands for the u128 the subtraction wraps to)
buy_transfers(creator_id, price, for_treasury_amount) ==
    <<[receiver_id |-> creator_id, amount |-> price - for_treasury_amount]>>
        \o (IF for_treasury_amount # 0
            THEN <<[receiver_id |-> TREASURY, amount |-> for_treasury_amount]>>
            ELSE <<>>)

\* pub fn nft_buy
nft_buy(caller, token_series_id, receiver_id, deposit, overflow_checks) ==
    LET op == "nft_buy"
        m == mint_series(token_series_id)
    IN
    /\ UNCHANGED runtime
    /\ IF token_series_id \notin DOMAIN token_series_by_id
       THEN Fail(op, caller, token_series_id, "Paras: Token series not exist")
       ELSE IF token_series_by_id[token_series_id].price = None
       THEN Fail(op, caller, token_series_id, "Paras: not for sale")
       ELSE LET price == Unwrap(token_series_by_id[token_series_id].price).lo
                treasury == for_treasury(token_series_id, price)
            IN IF ~DepositCovers(deposit, Unwrap(token_series_by_id[token_series_id].price))
               THEN Fail(op, caller, token_series_id, "Paras: attached deposit is less than price")
               ELSE IF m.err # "" THEN Fail(op, caller, token_series_id, m.err)
               ELSE IF treasury > price /\ overflow_checks
               THEN Fail(op, caller, token_series_id, "attempt to subtract with overflow")
               ELSE IF refund_deposit(deposit, STORAGE_COST, price) # ""
               THEN Fail(op, caller, token_series_id,
                         refund_deposit(deposit, STORAGE_COST, price))
               ELSE /\ record_mint(token_series_id, m, receiver_id)
                    /\ transaction_fee' =
                           IF token_series_id \in DOMAIN market_data_transaction_fee
                           THEN transaction_fee
                           ELSE calculate_current_transaction_fee(transaction_fee,
                                                                  block_timestamp)
                    /\ last' = [Call(op, caller, token_series_id, TRUE, "", m.token_id,
                                     price, treasury, price - treasury)
                                    EXCEPT !.args = <<receiver_id>>,
                                           !.deposit = deposit,
                                           !.refund = refund_amount(deposit, STORAGE_COST, price),
                                           !.transfers = buy_transfers(
                                               token_series_by_id[token_series_id].creator_id,
                                               price, treasury),
                                           !.events = <<log_nft_mint(receiver_id, <<m.token_id>>)>>]
                    /\ UNCHANGED <<market_data_transaction_fee, raffle, seller_by_id, account_id_og,
                                   approvals_by_id, next_approval_id_by_id>>

\* pub fn nft_mint_creator
nft_mint_creator(caller, token_series_id, receiver_id, deposit) ==
    LET op == "nft_mint_creator"
        m == mint_series(token_series_id)
    IN
    /\ UNCHANGED runtime
    /\ IF token_series_id \notin DOMAIN token_series_by_id
       THEN Fail(op, caller, token_series_id, "Paras: Token series not exist")
       ELSE IF caller # token_series_by_id[token_series_id].creator_id
       THEN Fail(op, caller, token_series_id, "Paras: not creator")
       ELSE IF m.err # "" THEN Fail(op, caller, token_series_id, m.err)
       ELSE IF refund_deposit(deposit, STORAGE_COST, 0) # ""
       THEN PanicAfterMint(op, caller, token_series_id,
                           refund_deposit(deposit, STORAGE_COST, 0), m, receiver_id, raffle)
       ELSE /\ record_mint(token_series_id, m, receiver_id)
            /\ last' = [Ok(op, caller, token_series_id, m.token_id, 0)
                            EXCEPT !.args = <<receiver_id>>,
                                   !.deposit = deposit,
                                   !.refund = refund_amount(deposit, STORAGE_COST, 0),
                                   !.events = <<log_nft_mint(receiver_id, <<m.token_id>>)>>]
            /\ UNCHANGED <<transaction_fee, market_data_transaction_fee, raffle, seller_by_id,
                           account_id_og, approvals_by_id, next_approval_id_by_id>>

\* pub fn get_raffle_length (view): the indices left in the pool
get_raffle_length == Cardinality(raffle)

\* a draw that leaves the drawn index in the pool
raffle_draw_kept(index) == raffle

\* Raffle::draw seen from the contract: the pool without the drawn index
raffle_draw(index) == raffle \ {index}

\* a translation that names the first series whatever was drawn
drawn_series_id_fixed(index) == Format(1)

\* the series identifier draw_and_mint derives from the drawn index
drawn_series_id(index) == Format(index + 1)

\* pub fn draw_and_mint; `index` is the slot the random seed selects
draw_and_mint(caller, receiver_id, deposit, index) ==
    LET op == "draw_and_mint"
        token_series_id == drawn_series_id(index)
        m == mint_series(token_series_id)
    IN
    /\ UNCHANGED runtime
    /\ IF raffle = {} THEN Fail(op, caller, <<>>, "Raffle: pool exhausted")
       ELSE /\ index \in raffle
            /\ IF m.err # ""
               THEN PanicAfterDraw(op, caller, token_series_id, m.err, raffle_draw(index))
               ELSE IF refund_deposit(deposit, STORAGE_COST, 0) # ""
               THEN PanicAfterMint(op, caller, token_series_id,
                                   refund_deposit(deposit, STORAGE_COST, 0),
                                   m, receiver_id, raffle_draw(index))
               ELSE /\ record_mint(token_series_id, m, receiver_id)
                    /\ raffle' = raffle_draw(index)
                    /\ last' = [Ok(op, caller, token_series_id, m.token_id, index)
                                    EXCEPT !.args = <<receiver_id>>,
                                           !.deposit = deposit,
                                           !.refund = refund_amount(deposit, STORAGE_COST, 0),
                                           !.events = <<log_nft_mint(receiver_id, <<m.token_id>>)>>]
                    /\ UNCHANGED <<transaction_fee, market_data_transaction_fee,
                                   seller_by_id, account_id_og, approvals_by_id,
                                   next_approval_id_by_id>>

\* the map pub fn decress_balance_og leaves: `insert(account_id,
\* balance_mint_og - 1)` on u32
decress_balance_og(account_id, balance_mint_og) ==
    Put(account_id_og, account_id, U32WrapSub(balance_mint_og, 1))

\* pub fn decress_balance_og called as a transaction: payable, no assertion
\* on the caller or the deposit; overflow_checks is the build's setting
DecressBalanceOg(caller, account_id, balance_mint_og, overflow_checks) ==
    LET op == "decress_balance_og" IN
    /\ UNCHANGED runtime
    /\ IF balance_mint_og = 0 /\ overflow_checks
       THEN FailArgs(op, caller, <<>>, "attempt to subtract with overflow",
                     <<account_id, balance_mint_og>>)
       ELSE /\ account_id_og' = decress_balance_og(account_id, balance_mint_og)
            /\ last' = [Ok(op, caller, <<>>, <<>>, 0) EXCEPT
                            !.args = <<account_id, balance_mint_og>>]
            /\ UNCHANGED <<transaction_fee, market_data_transaction_fee,
                           token_series_by_id, owner_by_id, tokens_per_owner,
                           token_series_id_minted, raffle, seller_by_id, approvals_by_id,
                           next_approval_id_by_id, history>>

\* pub fn nft_mint
nft_mint(caller, token_series_id, receiver_id, deposit) ==
    LET op == "nft_mint"
        m == mint_series(token_series_id)
    IN
    /\ UNCHANGED runtime
    /\ IF caller \notin DOMAIN account_id_og
       THEN Fail(op, caller, token_series_id, "Not in OG list")
       ELSE IF U32Le(account_id_og[caller], 0)
       THEN Fail(op, caller, token_series_id, "Not enough balance in OG")
       ELSE IF m.err # "" THEN Fail(op, caller, token_series_id, m.err)
       ELSE IF refund_deposit(deposit, STORAGE_COST, 0) # ""
       THEN Fail(op, caller, token_series_id, refund_deposit(deposit, STORAGE_COST, 0))
       ELSE /\ record_mint(token_series_id, m, receiver_id)
            /\ account_id_og' = decress_balance_og(caller, account_id_og[caller])
            /\ last' = [Ok(op, caller, token_series_id, m.token_id, 0)
                            EXCEPT !.args = <<receiver_id>>,
                                   !.deposit = deposit,
                                   !.refund = refund_amount(deposit, STORAGE_COST, 0),
                                   !.events = <<log_nft_mint(receiver_id, <<m.token_id>>)>>]
            /\ UNCHANGED <<transaction_fee, market_data_transaction_fee, raffle, seller_by_id,
                           approvals_by_id, next_approval_id_by_id>>

\* pub fn nft_mint_and_approve
nft_mint_and_approve(caller, token_series_id, account_id, deposit) ==
    LET op == "nft_mint_and_approve"
        m == mint_series(token_series_id)
    IN
    /\ UNCHANGED runtime
    /\ IF token_series_id \notin DOMAIN token_series_by_id
       THEN Fail(op, caller, token_series_id, "Paras: Token series not exist")
       ELSE IF caller # token_series_by_id[token_series_id].creator_id
       THEN Fail(op, caller, token_series_id, "Paras: not creator")
       ELSE IF m.err # "" THEN Fail(op, caller, token_series_id, m.err)
       ELSE IF refund_deposit(deposit, STORAGE_COST, 0) # ""
       THEN Fail(op, caller, token_series_id, refund_deposit(deposit, STORAGE_COST, 0))
       ELSE LET approved_account_ids ==
                    IF m.token_id \in DOMAIN approvals_by_id
                    THEN approvals_by_id[m.token_id] ELSE << >>
                approval_id ==
                    IF m.token_id \in DOMAIN next_approval_id_by_id
                    THEN next_approval_id_by_id[m.token_id] ELSE 1
            IN /\ record_mint(token_series_id, m,
                              token_series_by_id[token_series_id].creator_id)
               /\ approvals_by_id' = Put(approvals_by_id, m.token_id,
                                         Put(approved_account_ids, account_id, approval_id))
               /\ next_approval_id_by_id' =
                      Put(next_approval_id_by_id, m.token_id, approval_id + 1)
               /\ last' = [Ok(op, caller, token_series_id, m.token_id, approval_id)
                               EXCEPT !.args = <<account_id>>,
                                      !.deposit = deposit,
                                      !.refund = refund_amount(deposit, STORAGE_COST, 0),
                                      !.events = <<log_nft_mint(
                                          token_series_by_id[token_series_id].creator_id,
                                          <<m.token_id>>)>>]
               /\ UNCHANGED <<transaction_fee, market_data_transaction_fee, raffle, seller_by_id,
                              account_id_og>>

\* pub fn add_og_account_id (explicit balance)
add_og_account_id(caller, deposit, account_id, balance) ==
    LET op == "add_og_account_id" IN
    /\ UNCHANGED runtime
    /\ IF deposit # 1
       THEN Fail(op, caller, <<>>, "Requires attached deposit of exactly 1 yoctoNEAR")
       ELSE IF caller # OWNER THEN Fail(op, caller, <<>>, "Paras: Owner only")
       ELSE /\ account_id_og' = Put(account_id_og, account_id, balance)
            /\ last' = Ok(op, caller, <<>>, <<>>, balance)
            /\ UNCHANGED <<transaction_fee, market_data_transaction_fee,
                           token_series_by_id, owner_by_id, tokens_per_owner,
                           token_series_id_minted, raffle, seller_by_id, approvals_by_id,
                           next_approval_id_by_id, history>>

\* pub fn remove_og_account_id
remove_og_account_id(caller, deposit, account_id) ==
    LET op == "remove_og_account_id" IN
    /\ UNCHANGED runtime
    /\ IF deposit # 1
       THEN Fail(op, caller, <<>>, "Requires attached deposit of exactly 1 yoctoNEAR")
       ELSE IF caller # OWNER THEN Fail(op, caller, <<>>, "Paras: Owner only")
       ELSE /\ account_id_og' = Del(account_id_og, account_id)
            /\ last' = [Ok(op, caller, <<>>, <<>>, 0) EXCEPT !.args = <<account_id>>]
            /\ UNCHANGED <<transaction_fee, market_data_transaction_fee,
                           token_series_by_id, owner_by_id, tokens_per_owner,
                           token_series_id_minted, raffle, seller_by_id, approvals_by_id,
                           next_approval_id_by_id, history>>

\* pub fn get_og_balance (view)
get_og_balance(account_id) ==
    IF account_id \in DOMAIN account_id_og THEN account_id_og[account_id] ELSE 0

(* ------------------------- series maintenance ------------------------- *)
\* writes one series record back and leaves the rest of the contract alone
store_series(token_series_id, token_series) ==
    /\ token_series_by_id' = Put(token_series_by_id, token_series_id, token_series)
    /\ UNCHANGED <<owner_by_id, tokens_per_owner, token_series_id_minted, raffle, seller_by_id,
                   account_id_og, approvals_by_id, next_approval_id_by_id,
                   created_log, minted_log>>

\* pub fn nft_set_series_non_mintable
\* a closing call that does not look at the copies cap
uncapped_any(token_series) == TRUE

\* the assertion of nft_set_series_non_mintable that the series has no cap
uncapped(token_series) == token_series.metadata.copies = None

\* pub fn nft_set_series_non_mintable
nft_set_series_non_mintable(caller, deposit, token_series_id) ==
    LET op == "nft_set_series_non_mintable" IN
    /\ UNCHANGED runtime
    /\ IF deposit # 1
       THEN Fail(op, caller, token_series_id, "Requires attached deposit of exactly 1 yoctoNEAR")
       ELSE IF token_series_id \notin DOMAIN token_series_by_id
       THEN Fail(op, caller, token_series_id, "Token series not exist")
       ELSE LET token_series == token_series_by_id[token_series_id] IN
            IF caller # token_series.creator_id
            THEN Fail(op, caller, token_series_id, "Paras: Creator only")
            ELSE IF ~token_series.is_mintable
            THEN Fail(op, caller, token_series_id, "Paras: already non-mintable")
            ELSE IF ~uncapped(token_series)
            THEN Fail(op, caller, token_series_id, "Paras: decrease supply if copies not null")
            ELSE /\ store_series(token_series_id,
                                 [token_series EXCEPT !.is_mintable = FALSE])
                 /\ last' = [Ok(op, caller, token_series_id, <<>>, 0)
                                 EXCEPT !.events = <<log_series(op, token_series_id)>>]
                 /\ UNCHANGED <<transaction_fee, market_data_transaction_fee, snapshot_log>>

\* the cap nft_decrease_series_copies computes (wrapping u64 subtraction)
decreased_copies(copies, decrease_copies) == copies - decrease_copies

\* a decrease that does not compare the new cap with the minted count
can_decrease_unchecked(minted_copies, new_copies) == TRUE

\* the assertion of nft_decrease_series_copies on the new cap
can_decrease(minted_copies, new_copies) == U64Le(minted_copies, new_copies)

\* pub fn nft_decrease_series_copies; overflow_checks is the build's setting
nft_decrease_series_copies(caller, deposit, token_series_id, decrease_copies, overflow_checks) ==
    LET op == "nft_decrease_series_copies"
        Panic(err) == FailArgs(op, caller, token_series_id, err, <<decrease_copies>>)
    IN
    /\ UNCHANGED runtime
    /\ IF deposit # 1
       THEN Panic("Requires attached deposit of exactly 1 yoctoNEAR")
       ELSE IF token_series_id \notin DOMAIN token_series_by_id
       THEN Panic("Token series not exist")
       ELSE LET token_series == token_series_by_id[token_series_id]
                minted_copies == Len(token_series.tokens)
            IN
            IF caller # token_series.creator_id
            THEN Panic("Paras: Creator only")
            ELSE IF token_series.metadata.copies = None
            THEN Panic("called Option::unwrap() on a None value")
            ELSE LET copies == Unwrap(token_series.metadata.copies)
                     new_copies == decreased_copies(copies, decrease_copies)
                 IN
                 IF U64Lt(copies, decrease_copies) /\ overflow_checks
                 THEN Panic("attempt to subtract with overflow")
                 ELSE IF ~can_decrease(minted_copies, new_copies)
                 THEN Panic("Paras: cannot decrease supply, already minted")
                 ELSE /\ new_copies >= 0 \/ new_copies = U64_MAX
                      /\ store_series(token_series_id,
                             [token_series EXCEPT
                                 !.is_mintable = IF new_copies = minted_copies
                                                 THEN FALSE ELSE @,
                                 !.metadata.copies = Some(new_copies)])
                      /\ last' = [Ok(op, caller, token_series_id, <<>>, new_copies)
                                      EXCEPT !.args = <<decrease_copies>>,
                                             !.events = <<log_series(op, token_series_id)>>]
                      /\ UNCHANGED <<transaction_fee, market_data_transaction_fee,
                                     snapshot_log>>

\* a price call open to every account
price_setter_allowed_any(caller, token_series) == TRUE

\* the creator assertion of nft_set_series_price
price_setter_allowed(caller, token_series) == caller = token_series.creator_id

\* pub fn nft_set_series_price
nft_set_series_price(caller, deposit, token_series_id, price) ==
    LET op == "nft_set_series_price"
        Panic(err) == FailArgs(op, caller, token_series_id, err, <<price>>)
    IN
    /\ UNCHANGED runtime
    /\ IF deposit # 1
       THEN Panic("Requires attached deposit of exactly 1 yoctoNEAR")
       ELSE IF token_series_id \notin DOMAIN token_series_by_id
       THEN Panic("Token series not exist")
       ELSE LET token_series == token_series_by_id[token_series_id]
                tf == calculate_current_transaction_fee(transaction_fee, block_timestamp)
            IN
            IF ~price_setter_allowed(caller, token_series)
            THEN Panic("Paras: Creator only")
            ELSE IF ~token_series.is_mintable
            THEN Panic("Paras: token series is not mintable")
            ELSE IF IsSome(price) /\ ~BelowMaxPrice(Unwrap(price))
            THEN Panic("Paras: price higher than MAX_PRICE")
            ELSE /\ store_series(token_series_id,
                        [token_series EXCEPT !.price =
                            IF IsSome(price) THEN Some(Balance(Unwrap(price))) ELSE None])
                 /\ transaction_fee' = tf
                 /\ market_data_transaction_fee' =
                        Put(market_data_transaction_fee, token_series_id, tf.current_fee)
                 /\ snapshot_log' = Put(snapshot_log, token_series_id,
                                        ObservedFee(transaction_fee, block_timestamp))
                 /\ last' = [Ok(op, caller, token_series_id, <<>>, tf.current_fee)
                                 EXCEPT !.args = <<price>>,
                                        !.events = <<log_series(op, token_series_id)>>]

\* a burn that also takes the token out of the series' token set
series_tokens_after_burn_removed(tokens, token_id) ==
    SelectSeq(tokens, LAMBDA t : t # token_id)

\* the series' token set after nft_burn (the burn does not touch it)
series_tokens_after_burn(tokens, token_id) == tokens

\* an owner index the burned token stays in
owner_tokens_after_burn_kept(token_ids, token_id) == token_ids

\* the owner's token set after nft_burn
owner_tokens_after_burn(token_ids, token_id) == token_ids \ {token_id}

\* a burn open to every account
burn_allowed_any(owner_id, caller) == TRUE

\* the owner assertion of nft_burn
burn_allowed(owner_id, caller) == owner_id = caller

\* pub fn nft_burn
nft_burn(caller, deposit, token_id) ==
    LET op == "nft_burn"
        sid == SplitFirst(token_id)
        Panic(err) == FailArgs(op, caller, sid, err, <<token_id>>)
    IN
    /\ UNCHANGED runtime
    /\ IF deposit # 1
       THEN Panic("Requires attached deposit of exactly 1 yoctoNEAR")
       ELSE IF token_id \notin DOMAIN owner_by_id
       THEN Panic("called Option::unwrap() on a None value")
       ELSE LET owner_id == owner_by_id[token_id] IN
            IF ~burn_allowed(owner_id, caller) THEN Panic("Token owner only")
            ELSE /\ next_approval_id_by_id' = Del(next_approval_id_by_id, token_id)
                 /\ approvals_by_id' = Del(approvals_by_id, token_id)
                 /\ tokens_per_owner' = Put(tokens_per_owner, owner_id,
                        owner_tokens_after_burn(tokens_per_owner[owner_id], token_id))
                 /\ owner_by_id' = Del(owner_by_id, token_id)
                 /\ token_series_by_id' =
                        [s \in DOMAIN token_series_by_id |->
                            [token_series_by_id[s] EXCEPT
                                !.tokens = series_tokens_after_burn(@, token_id)]]
                 /\ last' = [Ok(op, caller, sid, token_id, 0) EXCEPT
                                !.args = <<token_id>>,
                                !.events = <<log_nft_burn(owner_id, <<token_id>>, None)>>]
                 /\ UNCHANGED <<transaction_fee, market_data_transaction_fee,
                                token_series_id_minted, raffle, seller_by_id, account_id_og, history>>

(* ------------------------------- views -------------------------------- *)
\* the transaction_fee field of what pub fn nft_get_series_single returns
nft_get_series_single_fee(token_series_id) ==
    get_market_data_transaction_fee(token_series_id)

\* pub fn nft_get_series_single (view) of a stored series
nft_get_series_single(token_series_id) ==
    LET token_series == token_series_by_id[token_series_id]
    IN [token_series_id |-> token_series_id,
        metadata |-> token_series.metadata,
        creator_id |-> token_series.creator_id,
        royalty |-> token_series.royalty,
        transaction_fee |-> Some(get_market_data_transaction_fee(token_series_id))]

\* whether pub fn nft_token panics: the token has an owner and the text
\* before its first ':' names no stored series (`.get(..).unwrap()`)
nft_token_panics(token_id) ==
    /\ token_id \in DOMAIN owner_by_id
    /\ SplitFirst(token_id) \notin DOMAIN token_series_by_id

\* pub fn nft_token (view): None, or the token with its owner, its approved
\* accounts and the title and copies derived from its series
nft_token(token_id) ==
    IF token_id \notin DOMAIN owner_by_id THEN None
    ELSE LET series_metadata == token_series_by_id[SplitFirst(token_id)].metadata
         IN Some([token_id |-> token_id,
                  owner_id |-> owner_by_id[token_id],
                  approved_account_ids |->
                      IF token_id \in DOMAIN approvals_by_id
                      THEN approvals_by_id[token_id] ELSE << >>,
                  title |-> <<Unwrap(series_metadata.title), " #">>
                                \o SplitSecond(token_id),
                  copies |-> series_metadata.copies])

\* pub fn nft_token called as a view
NftToken(caller, token_id) ==
    /\ last' = IF nft_token_panics(token_id)
               THEN [Call("nft_token", caller, SplitFirst(token_id), FALSE,
                          "called Option::unwrap() on a None value", <<>>, 0, 0, 0)
                        EXCEPT !.args = <<token_id>>]
               ELSE [Ok("nft_token", caller, SplitFirst(token_id), nft_token(token_id), 0)
                        EXCEPT !.args = <<token_id>>]
    /\ UNCHANGED <<runtime, contract, history>>

\* tokens.iter().skip(start_index).take(limit) over the series' token set;
\* no limit stands for usize::MAX
tokens_page(tokens, start_index, limit) ==
    SubSeq(tokens, start_index + 1,
           IF limit = None \/ start_index + Unwrap(limit) > Len(tokens)
           THEN Len(tokens) ELSE start_index + Unwrap(limit))

\* whether `self.nft_token(token_id).unwrap()` panics on an entry of the page
page_token_missing(token_id) == nft_token_panics(token_id) \/ nft_token(token_id) = None

\* pub fn nft_tokens_by_series (view)
nft_tokens_by_series(caller, token_series_id, from_index, limit) ==
    LET op == "nft_tokens_by_series"
        Rec(ok, err, ret) ==
            [Call(op, caller, token_series_id, ok, err, ret, 0, 0, 0)
                EXCEPT !.args = <<token_series_id, from_index, limit>>]
        start_index == UnwrapOr(from_index, 0)
    IN
    /\ UNCHANGED <<runtime, contract, history>>
    /\ IF token_series_id \notin DOMAIN token_series_by_id
       THEN last' = Rec(FALSE, "called Option::unwrap() on a None value", <<>>)
       ELSE LET tokens == token_series_by_id[token_series_id].tokens
                page == tokens_page(tokens, start_index, limit)
            IN IF ~(Len(tokens) > start_index)
               THEN last' = Rec(FALSE, "Out of bounds, please use a smaller from_index.", <<>>)
               ELSE IF limit = Some(0)
               THEN last' = Rec(FALSE, "Cannot provide limit of 0.", <<>>)
               ELSE IF \E i \in 1..Len(page) : page_token_missing(page[i])
               THEN last' = Rec(FALSE, "called Option::unwrap() on a None value", <<>>)
               ELSE last' = Rec(TRUE, "", [i \in 1..Len(page) |-> Unwrap(nft_token(page[i]))])

(* ------------------------------ payouts ------------------------------- *)
\* a share rounded up to the next unit
royalty_to_payout_rounded_up(a, b) == (a * b + (BPS_DENOM - 1)) \div BPS_DENOM

\* fn royalty_to_payout: a * b / 10000 in u128; a negative a stands for
\* 2^32 + a, and 2^32 = 429496 * 10000 + 7296
royalty_to_payout(a, b) ==
    IF a >= 0 THEN (a * b) \div BPS_DENOM
    ELSE 429496 * b + ((7296 + a) * b) \div BPS_DENOM

\* the assertion on the number of receivers of both payout calls
payout_len_allowed(royalty, max_len_payout) ==
    Cardinality(DOMAIN royalty) <= max_len_payout

\* the loop over the royalty map and the owner's entry, shared by nft_payout
\* and nft_transfer_payout (which asserts the total first): the panic or the
\* payout map
split_payout(royalty, owner_id, balance, overflow_checks, assert_total) ==
    LET others == (DOMAIN royalty) \ {owner_id}
        total_perpetual == royalty_total(royalty, others)
        owner_bps == U32WrapSub(BPS_DENOM, total_perpetual.sum)
        Panic(err) == [err |-> err, payout |-> << >>]
    IN IF total_perpetual.overflow /\ overflow_checks
       THEN Panic("attempt to add with overflow")
       ELSE IF assert_total /\ ~U32Le(total_perpetual.sum, BPS_DENOM)
       THEN Panic("Total payout overflow")
       ELSE IF ~U32Le(total_perpetual.sum, BPS_DENOM) /\ overflow_checks
       THEN Panic("attempt to subtract with overflow")
       ELSE [err |-> "",
             payout |-> [k \in others \cup {owner_id} |->
                            IF k = owner_id THEN royalty_to_payout(owner_bps, balance)
                            ELSE royalty_to_payout(royalty[k], balance)]]

\* pub fn nft_payout (view)
nft_payout(caller, token_id, balance, max_len_payout, overflow_checks) ==
    LET op == "nft_payout"
        Rec(ok, err, payout) ==
            [Call(op, caller, SplitFirst(token_id), ok, err, token_id, balance, 0, 0)
                EXCEPT !.args = <<token_id, balance, max_len_payout>>,
                       !.before = owner_by_id,
                       !.payout = payout]
    IN
    /\ UNCHANGED <<runtime, contract, history>>
    /\ IF token_id \notin DOMAIN owner_by_id THEN last' = Rec(FALSE, "No token id", << >>)
       ELSE IF SplitFirst(token_id) \notin DOMAIN token_series_by_id
       THEN last' = Rec(FALSE, "no type", << >>)
       ELSE LET royalty == token_series_by_id[SplitFirst(token_id)].royalty
                split == split_payout(royalty, owner_by_id[token_id], balance,
                                      overflow_checks, FALSE)
            IN IF ~payout_len_allowed(royalty, max_len_payout)
               THEN last' = Rec(FALSE, "Market cannot payout to that many receivers", << >>)
               ELSE last' = Rec(split.err = "", split.err, split.payout)

\* NonFungibleToken::nft_transfer of the token library, as nft_transfer_payout
\* calls it: "" when the sender may move the token, else the panic
tokens_nft_transfer_error(sender_id, receiver_id, token_id, approval_id) ==
    LET owner_id == owner_by_id[token_id]
        approved_account_ids ==
            IF token_id \in DOMAIN approvals_by_id THEN approvals_by_id[token_id] ELSE << >>
    IN IF sender_id # owner_id /\ token_id \notin DOMAIN approvals_by_id
       THEN "Unauthorized"
       ELSE IF sender_id # owner_id /\ sender_id \notin DOMAIN approved_account_ids
       THEN "Sender not approved"
       ELSE IF /\ sender_id # owner_id /\ IsSome(approval_id)
               /\ approved_account_ids[sender_id] # Unwrap(approval_id)
       THEN "The actual approval_id is different from the given approval_id"
       ELSE IF owner_id = receiver_id THEN "Current and next owner must differ"
       ELSE ""

\* the ledger writes of NonFungibleToken::nft_transfer
tokens_nft_transfer(receiver_id, token_id) ==
    LET owner_id == owner_by_id[token_id]
        owner_tokens == tokens_per_owner[owner_id] \ {token_id}
        moved_out == IF owner_tokens = {} THEN Del(tokens_per_owner, owner_id)
                     ELSE Put(tokens_per_owner, owner_id, owner_tokens)
    IN /\ approvals_by_id' = Del(approvals_by_id, token_id)
       /\ owner_by_id' = Put(owner_by_id, token_id, receiver_id)
       /\ tokens_per_owner' = Put(moved_out, receiver_id,
              (IF receiver_id \in DOMAIN moved_out THEN moved_out[receiver_id] ELSE {})
                  \cup {token_id})

\* pub fn nft_transfer_payout
nft_transfer_payout(caller, deposit, receiver_id, token_id, approval_id, balance, max_len_payout, overflow_checks) ==
    LET op == "nft_transfer_payout"
        Rec(ok, err, payout) ==
            [Call(op, caller, SplitFirst(token_id), ok, err, token_id, 0, 0, 0)
                EXCEPT !.args = <<token_id, balance, max_len_payout, receiver_id>>,
                       !.before = owner_by_id,
                       !.payout = payout,
                       !.events = IF ok
                                  THEN <<log_nft_transfer(owner_by_id[token_id], receiver_id,
                                             <<token_id>>,
                                             authorized_id(caller, owner_by_id[token_id]))>>
                                  ELSE <<>>]
        Panic(err) == last' = Rec(FALSE, err, << >>) /\ UNCHANGED <<contract, history>>
    IN
    /\ UNCHANGED runtime
    /\ IF deposit # 1 THEN Panic("Requires attached deposit of exactly 1 yoctoNEAR")
       ELSE IF nft_token_panics(token_id)
       THEN Panic("called Option::unwrap() on a None value")
       ELSE IF nft_token(token_id) = None THEN Panic("no token")
       ELSE IF tokens_nft_transfer_error(caller, receiver_id, token_id, approval_id) # ""
       THEN Panic(tokens_nft_transfer_error(caller, receiver_id, token_id, approval_id))
       ELSE LET previous_owner_id == Unwrap(nft_token(token_id)).owner_id
                royalty == token_series_by_id[SplitFirst(token_id)].royalty
                split == IF balance = None THEN [err |-> "", payout |-> << >>]
                         ELSE split_payout(royalty, previous_owner_id, Unwrap(balance),
                                           overflow_checks, TRUE)
                count_sell == IF previous_owner_id \in DOMAIN seller_by_id
                              THEN seller_by_id[previous_owner_id] + 1 ELSE 1
            IN IF IsSome(balance) /\ max_len_payout = None
               THEN Panic("called Option::unwrap() on a None value")
               ELSE IF IsSome(balance) /\ ~payout_len_allowed(royalty, Unwrap(max_len_payout))
               THEN Panic("Market cannot payout to that many receivers")
               ELSE IF split.err # "" THEN Panic(split.err)
               ELSE /\ SumOver(seller_by_id, DOMAIN seller_by_id) < MaxTransfers
                    /\ tokens_nft_transfer(receiver_id, token_id)
                    /\ seller_by_id' = Put(seller_by_id, previous_owner_id, count_sell)
                    /\ last' = Rec(TRUE, "", split.payout)
                    /\ UNCHANGED <<transaction_fee, market_data_transaction_fee,
                                   token_series_by_id, token_series_id_minted, raffle,
                                   account_id_og, next_approval_id_by_id, history>>

(* ------------------------------ transfers ----------------------------- *)
\* NonFungibleToken::internal_transfer of the token library: "" when the
\* sender may move the token to the receiver, else the panic
internal_transfer_error(sender_id, receiver_id, token_id, approval_id) ==
    IF token_id \notin DOMAIN owner_by_id THEN "Token not found"
    ELSE tokens_nft_transfer_error(sender_id, receiver_id, token_id, approval_id)

\* the approvals internal_transfer clears and hands back
old_approvals(token_id) ==
    IF token_id \in DOMAIN approvals_by_id THEN Some(approvals_by_id[token_id]) ELSE None

\* pub fn nft_transfer
nft_transfer(caller, deposit, receiver_id, token_id, approval_id) ==
    LET op == "nft_transfer"
        sid == SplitFirst(token_id)
        args == <<receiver_id, token_id>>
        Panic(err) == FailArgs(op, caller, sid, err, args)
    IN
    /\ UNCHANGED runtime
    /\ IF token_id \notin DOMAIN owner_by_id THEN Panic("Token not found")
       ELSE IF deposit # 1 THEN Panic("Requires attached deposit of exactly 1 yoctoNEAR")
       ELSE IF internal_transfer_error(caller, receiver_id, token_id, approval_id) # ""
       THEN Panic(internal_transfer_error(caller, receiver_id, token_id, approval_id))
       ELSE LET previous_owner_id == owner_by_id[token_id] IN
            /\ tokens_nft_transfer(receiver_id, token_id)
            /\ last' = [Ok(op, caller, sid, <<>>, 0) EXCEPT
                           !.args = args,
                           !.events = <<log_nft_transfer(previous_owner_id, receiver_id,
                                            <<token_id>>,
                                            authorized_id(caller, previous_owner_id))>>]
            /\ UNCHANGED <<transaction_fee, market_data_transaction_fee,
                           token_series_by_id, token_series_id_minted, raffle,
                           seller_by_id, account_id_og, next_approval_id_by_id, history>>

\* pub fn nft_transfer_unsafe: no deposit is asked for
nft_transfer_unsafe(caller, receiver_id, token_id, approval_id) ==
    LET op == "nft_transfer_unsafe"
        sid == SplitFirst(token_id)
        args == <<receiver_id, token_id>>
    IN
    /\ UNCHANGED runtime
    /\ IF internal_transfer_error(caller, receiver_id, token_id, approval_id) # ""
       THEN FailArgs(op, caller, sid,
                     internal_transfer_error(caller, receiver_id, token_id, approval_id), args)
       ELSE LET previous_owner_id == owner_by_id[token_id] IN
            /\ tokens_nft_transfer(receiver_id, token_id)
            /\ last' = [Ok(op, caller, sid, <<>>, 0) EXCEPT
                           !.args = args,
                           !.events = <<log_nft_transfer(previous_owner_id, receiver_id,
                                            <<token_id>>,
                                            authorized_id(caller, previous_owner_id))>>]
            /\ UNCHANGED <<transaction_fee, market_data_transaction_fee,
                           token_series_by_id, token_series_id_minted, raffle,
                           seller_by_id, account_id_og, next_approval_id_by_id, history>>

\* pub fn nft_transfer_call: the transfer is made at once; the receiver's
\* nft_on_transfer and the nft_resolve_transfer callback run in later blocks
nft_transfer_call(caller, deposit, receiver_id, token_id, approval_id) ==
    LET op == "nft_transfer_call"
        sid == SplitFirst(token_id)
        args == <<receiver_id, token_id>>
        Panic(err) == FailArgs(op, caller, sid, err, args) /\ UNCHANGED promises
    IN
    /\ UNCHANGED block_timestamp
    /\ IF deposit # 1 THEN Panic("Requires attached deposit of exactly 1 yoctoNEAR")
       ELSE IF internal_transfer_error(caller, receiver_id, token_id, approval_id) # ""
       THEN Panic(internal_transfer_error(caller, receiver_id, token_id, approval_id))
       ELSE LET previous_owner_id == owner_by_id[token_id] IN
            /\ tokens_nft_transfer(receiver_id, token_id)
            /\ promises' = Append(promises,
                               [previous_owner_id |-> previous_owner_id,
                                receiver_id |-> receiver_id,
                                token_id |-> token_id,
                                approved_account_ids |-> old_approvals(token_id)])
            /\ last' = [Ok(op, caller, sid, <<>>, 0) EXCEPT
                           !.args = args,
                           !.events = <<log_nft_transfer(previous_owner_id, receiver_id,
                                            <<token_id>>,
                                            authorized_id(caller, previous_owner_id))>>]
            /\ UNCHANGED <<transaction_fee, market_data_transaction_fee,
                           token_series_by_id, token_series_id_minted, raffle,
                           seller_by_id, account_id_og, next_approval_id_by_id, history>>

\* NonFungibleToken::nft_resolve_transfer of the token library: TRUE when the
\* transfer stands, FALSE when the token goes back to the previous owner;
\* must_revert is what the receiver's nft_on_transfer answered
tokens_nft_resolve_transfer(receiver_id, token_id, must_revert) ==
    IF ~must_revert THEN TRUE
    ELSE IF token_id \notin DOMAIN owner_by_id THEN TRUE
    ELSE owner_by_id[token_id] # receiver_id

\* NonFungibleToken::internal_transfer_unguarded of the token library: the
\* owner and the two owner index sets change, the approvals do not
internal_transfer_unguarded(token_id, from, to) ==
    LET owner_tokens == tokens_per_owner[from] \ {token_id}
        moved_out == IF owner_tokens = {} THEN Del(tokens_per_owner, from)
                     ELSE Put(tokens_per_owner, from, owner_tokens)
    IN /\ owner_by_id' = Put(owner_by_id, token_id, to)
       /\ tokens_per_owner' = Put(moved_out, to,
              (IF to \in DOMAIN moved_out THEN moved_out[to] ELSE {}) \cup {token_id})

\* a resolution that logs the return whatever the library answered
transfer_reverted_always(resp) == TRUE

\* `if !resp`
transfer_reverted(resp) == ~resp

\* the sequence s without its i-th element
RemoveAt(s, i) == SubSeq(s, 1, i - 1) \o SubSeq(s, i + 1, Len(s))

\* fn nft_resolve_transfer (#[private]): the callback of the i-th scheduled
\* promise when the contract calls itself, a panic for every other caller
nft_resolve_transfer(caller, i, promise, must_revert) ==
    LET op == "nft_resolve_transfer"
        previous_owner_id == promise.previous_owner_id
        receiver_id == promise.receiver_id
        token_id == promise.token_id
        sid == SplitFirst(token_id)
        resp == tokens_nft_resolve_transfer(receiver_id, token_id, must_revert)
        events == IF transfer_reverted(resp)
                  THEN <<log_nft_transfer(receiver_id, previous_owner_id, <<token_id>>, None)>>
                  ELSE <<>>
        Done == last' = [Ok(op, caller, sid, resp, 0) EXCEPT
                             !.args = <<promise, must_revert>>,
                             !.before = owner_by_id,
                             !.events = events]
    IN
    /\ UNCHANGED block_timestamp
    /\ IF caller # CONTRACT
       THEN /\ FailArgs(op, caller, sid, "Method nft_resolve_transfer is private",
                        <<promise, must_revert>>)
            /\ UNCHANGED promises
       ELSE /\ promises' = RemoveAt(promises, i)
            /\ IF resp
               THEN Done /\ UNCHANGED <<contract, history>>
               ELSE /\ internal_transfer_unguarded(token_id, receiver_id, previous_owner_id)
                    /\ approvals_by_id' =
                           IF IsSome(promise.approved_account_ids)
                           THEN Put(approvals_by_id, token_id,
                                    Unwrap(promise.approved_account_ids))
                           ELSE approvals_by_id
                    /\ Done
                    /\ UNCHANGED <<transaction_fee, market_data_transaction_fee,
                                   token_series_by_id, token_series_id_minted, raffle,
                                   seller_by_id, account_id_og, next_approval_id_by_id,
                                   history>>

\* a view call: the state is read, never written
View(op, caller, sid, num) ==
    /\ last' = Ok(op, caller, sid, <<>>, num)
    /\ UNCHANGED <<runtime, contract, history>>

(* --------------------------- initial state ---------------------------- *)
\* Contract::new(owner_id = OWNER, .., max_supply_raffle, .., current_fee)
new(max_supply_raffle, current_fee) ==
    /\ block_timestamp = 0
    /\ promises = <<>>
    /\ transaction_fee = [next_fee |-> None, start_time |-> None,
                          current_fee |-> current_fee]
    /\ market_data_transaction_fee = << >>
    /\ token_series_by_id = << >>
    /\ owner_by_id = << >>
    /\ tokens_per_owner = << >>
    /\ token_series_id_minted = 0
    /\ raffle = 0..(max_supply_raffle - 1)
    /\ seller_by_id = << >>
    /\ account_id_og = << >>
    /\ approvals_by_id = << >>
    /\ next_approval_id_by_id = << >>
    /\ last = Call("new", OWNER, <<>>, TRUE, "", <<>>, current_fee, 0, 0)
    /\ created_log = <<>>
    /\ minted_log = << >>
    /\ snapshot_log = << >>

\* Contract::new_default_meta
Init == new(MaxSupplyRaffle, DEFAULT_FEE)

(* ------------------------- calls of the model ------------------------- *)
\* every series id a call may name: the stored ones and one that is not
SeriesArgs == (DOMAIN token_series_by_id) \cup {<<"9">>}
\* every token id a call may name: the issued ones and one that is not
TokenArgs == UNION {Range(token_series_by_id[s].tokens) : s \in DOMAIN token_series_by_id}
                 \cup {<<"9", ":", "1">>}

CreateArg(caller, creator_id, title, copies, price, royalty, deposit) ==
    [caller |-> caller, creator_id |-> creator_id,
     md |-> [title |-> title, copies |-> copies],
     price |-> price, royalty |-> royalty, deposit |-> deposit]

\* creation arguments that pass every check, for the given caps and prices
GoodCreateArgs(copies_set, price_set) ==
    {CreateArg(OWNER, None, Some("T"), c, p, Some([bob |-> 1000]), STORAGE_COST) :
        c \in copies_set, p \in price_set}

\* creation arguments with one thing changed each
OddCreateArgs ==
    {CreateArg("bob", None, Some("T"), None, None, None, STORAGE_COST),
     CreateArg(OWNER, Some("bob"), Some("T"), None, None, None, STORAGE_COST),
     CreateArg(OWNER, Some(OWNER), Some("T"), Some(1), None, None, STORAGE_COST),
     CreateArg(OWNER, None, None, None, None, None, STORAGE_COST),
     CreateArg(OWNER, None, Some("T"), None, None, Some([bob |-> 9001]), STORAGE_COST),
     CreateArg(OWNER, None, Some("T"), None, Some(U128(MAX_PRICE_NEAR, 0)), None,
               STORAGE_COST),
     CreateArg(OWNER, None, Some("T"), None, None, None, STORAGE_COST - 1)}

\* the build settings a creation call can tell apart: both where the royalty
\* sum leaves the u32 range, one where it does not
CreateBuilds(royalty) ==
    LET r == UnwrapOr(royalty, << >>)
    IN IF royalty_total(r, DOMAIN r).overflow THEN BOOLEAN ELSE {FALSE}

CreateSeriesWith(args) ==
    \E a \in args : \E overflow_checks \in CreateBuilds(a.royalty) :
        nft_create_series(a.caller, a.creator_id, a.md, a.price, a.royalty, a.deposit,
                          overflow_checks)

CreateSeriesCustomWith(ids, args) ==
    \E id \in ids, a \in args : \E overflow_checks \in CreateBuilds(a.royalty) :
        nft_create_series_custom(a.caller, id, a.creator_id, a.md, a.price, a.royalty,
                                 a.deposit, overflow_checks)

(* registry and supply: every call is made by an account entitled to it,
   with a sufficient deposit; what fails, fails on the series' supply state *)
CreateSeries ==
    /\ Cardinality(DOMAIN token_series_by_id) < MaxBusySeries
    /\ CreateSeriesWith(GoodCreateArgs(CopiesInputs, {Some(U128(0, PRICE))}))

Buy ==
    \E sid \in DOMAIN token_series_by_id, overflow_checks \in BOOLEAN :
        nft_buy("bob", sid, "bob", PRICE + STORAGE_COST, overflow_checks)

MintCreator ==
    \E sid \in DOMAIN token_series_by_id :
        nft_mint_creator(OWNER, sid, "bob", STORAGE_COST)

DrawAndMint ==
    \E index \in 0..(MaxSupplyRaffle - 1) :
        draw_and_mint("bob", "bob", STORAGE_COST, index)

MintOg ==
    \E sid \in DOMAIN token_series_by_id : nft_mint("bob", sid, "bob", STORAGE_COST)

MintAndApprove ==
    \E sid \in DOMAIN token_series_by_id :
        nft_mint_and_approve(OWNER, sid, "bob", STORAGE_COST)

AddOg == add_og_account_id(OWNER, 1, "bob", 1)

SetNonMintable ==
    \E sid \in DOMAIN token_series_by_id : nft_set_series_non_mintable(OWNER, 1, sid)

DecreaseCopies ==
    \E sid \in DOMAIN token_series_by_id, d \in DecreaseInputs,
       overflow_checks \in BOOLEAN :
        nft_decrease_series_copies(OWNER, 1, sid, d, overflow_checks)

SetPrice ==
    \E sid \in DOMAIN token_series_by_id :
        nft_set_series_price(OWNER, 1, sid, Some(U128(0, PRICE)))

Burn ==
    \E token_id \in DOMAIN owner_by_id : nft_burn(owner_by_id[token_id], 1, token_id)

Next ==
    \/ CreateSeries
    \/ Buy
    \/ MintCreator
    \/ DrawAndMint
    \/ MintOg
    \/ MintAndApprove
    \/ AddOg
    \/ SetNonMintable
    \/ DecreaseCopies
    \/ SetPrice
    \/ Burn

Spec == Init /\ [][Next]_vars

(* series identifiers: both creation calls race for the same identifiers *)
IdsCreateSeries ==
    CreateSeriesWith(GoodCreateArgs({None, Some(1)}, {None}))

IdsCreateSeriesCustom ==
    CreateSeriesCustomWith(CustomIds, GoodCreateArgs({None, Some(1)}, {None}))

IdsMintCreator ==
    \E sid \in DOMAIN token_series_by_id :
        /\ token_series_by_id[sid].tokens = <<>>
        /\ nft_mint_creator(OWNER, sid, "bob", STORAGE_COST)

NextIds ==
    \/ IdsCreateSeries
    \/ IdsCreateSeriesCustom
    \/ IdsMintCreator

SpecIds == Init /\ [][NextIds]_vars

(* fee schedule: the owner reschedules the fee while time passes and a
   series is created, priced and bought *)
SetTransactionFee ==
    \/ \E next_fee \in FeeInputs, start_time \in StartTimeInputs :
           set_transaction_fee(OWNER, 1, next_fee, start_time)
    \/ \E cd \in {<<"bob", 1>>, <<OWNER, 0>>},
          start_time \in {None, Some((MaxTicks \div 2) + 1)} :
           set_transaction_fee(cd[1], cd[2], 100, start_time)

Settle == CalculateCurrentTransactionFee("bob")

\* a priced series whose royalty map gives its creator 1000 basis points
FeeCreateArgs ==
    {CreateArg(OWNER, None, Some("T"), None, Some(U128(0, PRICE)),
               Some([alice |-> 1000]), STORAGE_COST)}

FeeCreateSeries ==
    /\ Cardinality(DOMAIN token_series_by_id) < MaxBusySeries
    /\ CreateSeriesWith(FeeCreateArgs)

FeeSetPrice ==
    \E sid \in DOMAIN token_series_by_id :
        nft_set_series_price(OWNER, 1, sid, Some(U128(0, PRICE)))

FeeBuy ==
    \E sid \in SeriesArgs, overflow_checks \in BOOLEAN :
        nft_buy("bob", sid, "bob", PRICE + STORAGE_COST, overflow_checks)

GetTransactionFee ==
    View("get_transaction_fee", "bob", <<>>, get_transaction_fee.current_fee)

GetMarketDataTransactionFee ==
    \E sid \in SeriesArgs :
        View("get_market_data_transaction_fee", "bob", sid,
             get_market_data_transaction_fee(sid))

GetSeriesSingle ==
    \E sid \in DOMAIN token_series_by_id :
        View("nft_get_series_single", "bob", sid, nft_get_series_single_fee(sid))

NextFee ==
    \/ AdvanceTime
    \/ SetTransactionFee
    \/ Settle
    \/ FeeCreateSeries
    \/ FeeSetPrice
    \/ FeeBuy
    \/ GetTransactionFee
    \/ GetMarketDataTransactionFee
    \/ GetSeriesSingle

SpecFee == Init /\ [][NextFee]_vars

(* ------------------- specification: the draw pool --------------------- *)
\* a pool with one slot per series the registry can hold
RafflePool == MaxSeries

InitRaffle == new(RafflePool, DEFAULT_FEE)

RfCreateSeries == CreateSeriesWith(GoodCreateArgs({None, Some(1)}, {None}))

RfDrawAndMint ==
    \E receiver_id \in Accounts, deposit \in {0, STORAGE_COST}, index \in 0..(RafflePool - 1) :
        draw_and_mint("bob", receiver_id, deposit, index)

RfSetNonMintable ==
    \E sid \in DOMAIN token_series_by_id : nft_set_series_non_mintable(OWNER, 1, sid)

NextRaffle ==
    \/ RfCreateSeries
    \/ RfDrawAndMint
    \/ RfSetNonMintable

SpecRaffle == InitRaffle /\ [][NextRaffle]_vars

(* --------------------- specification: payouts ------------------------- *)
\* accounts that hold tokens or receive royalties
Payees == Accounts \cup {"carol"}
\* royalty maps of the series paid out: none, one account, the first holder
\* among the accounts, shares that leave rounding dust, and a map whose u32
\* sum leaves the u32 range
PayoutRoyalties ==
    {None, Some([bob |-> 1000]), Some([alice |-> 1000, bob |-> 8000]),
     Some([bob |-> 3333, carol |-> 3333]), Some(RoyaltyWrapping)}
\* sale amounts
Balances == {3, 1999}

PayCreateSeries ==
    /\ Cardinality(DOMAIN token_series_by_id) < MaxBusySeries
    /\ CreateSeriesWith({CreateArg(OWNER, None, Some("T"), None, None, r, STORAGE_COST) :
                           r \in PayoutRoyalties})

PayMintCreator ==
    \E sid \in DOMAIN token_series_by_id, receiver_id \in {OWNER, "carol"} :
        /\ token_series_id_minted < MaxPayoutTokens
        /\ nft_mint_creator(OWNER, sid, receiver_id, STORAGE_COST)

PayMintAndApprove ==
    \E sid \in DOMAIN token_series_by_id :
        /\ token_series_id_minted < MaxPayoutTokens
        /\ nft_mint_and_approve(OWNER, sid, "bob", STORAGE_COST)

NftPayout ==
    \E token_id \in TokenArgs, balance \in Balances, max_len_payout \in {0, 1, 3},
       overflow_checks \in BOOLEAN :
        nft_payout("bob", token_id, balance, max_len_payout, overflow_checks)

NftTransferPayout ==
    \/ \E token_id \in TokenArgs, balance \in {None, Some(1999)},
          max_len_payout \in {Some(1), Some(3)}, overflow_checks \in BOOLEAN :
           nft_transfer_payout("bob", 1, "bob", token_id, None, balance, max_len_payout,
                               overflow_checks)
    \/ \E token_id \in DOMAIN owner_by_id, cd \in {<<OWNER, 1>>, <<"bob", 0>>},
          approval_id \in {None, Some(2)}, max_len_payout \in {None, Some(3)} :
           nft_transfer_payout(cd[1], cd[2], OWNER, token_id, approval_id, Some(3),
                               max_len_payout, FALSE)
    \/ \E token_id \in DOMAIN owner_by_id :
           nft_transfer_payout("bob", 1, OWNER, token_id, Some(2), Some(3), Some(3), FALSE)

NextPayout ==
    \/ PayCreateSeries
    \/ PayMintCreator
    \/ PayMintAndApprove
    \/ NftPayout
    \/ NftTransferPayout

SpecPayout == Init /\ [][NextPayout]_vars

(* ------------------- specification: maintenance ----------------------- *)
MtCreateSeries ==
    /\ Cardinality(DOMAIN token_series_by_id) < MaxBusySeries
    /\ CreateSeriesWith(GoodCreateArgs(CopiesInputs, {None}))

MtMintCreator ==
    \E sid \in DOMAIN token_series_by_id, deposit \in {0, STORAGE_COST} :
        nft_mint_creator(OWNER, sid, OWNER, deposit)

MtDrawAndMint ==
    \E deposit \in {0, STORAGE_COST}, index \in 0..(MaxSupplyRaffle - 1) :
        draw_and_mint("bob", "bob", deposit, index)

\* decreases by nothing, by one and by the whole cap in a build that checks
\* the subtraction, by one in a build that does not, and calls refused for
\* their caller or deposit
MtDecreaseCopies ==
    \/ \E sid \in DOMAIN token_series_by_id, d \in {0, 1, MaxCopies} :
           nft_decrease_series_copies(OWNER, 1, sid, d, TRUE)
    \/ \E sid \in SeriesArgs : nft_decrease_series_copies(OWNER, 1, sid, 1, FALSE)
    \/ \E sid \in DOMAIN token_series_by_id, cd \in {<<"bob", 1>>, <<OWNER, 0>>} :
           nft_decrease_series_copies(cd[1], cd[2], sid, 1, TRUE)

MtSetNonMintable ==
    \/ \E sid \in SeriesArgs : nft_set_series_non_mintable(OWNER, 1, sid)
    \/ \E sid \in DOMAIN token_series_by_id, cd \in {<<"bob", 1>>, <<OWNER, 0>>} :
           nft_set_series_non_mintable(cd[1], cd[2], sid)

MtBurn ==
    \/ \E token_id \in DOMAIN owner_by_id : nft_burn(owner_by_id[token_id], 1, token_id)
    \/ \E token_id \in TokenArgs : nft_burn(TREASURY, 1, token_id)
    \/ \E token_id \in DOMAIN owner_by_id : nft_burn(owner_by_id[token_id], 0, token_id)

NextMaint ==
    \/ MtCreateSeries
    \/ MtMintCreator
    \/ MtDecreaseCopies
    \/ MtSetNonMintable
    \/ MtBurn
    \/ MtDrawAndMint

SpecMaint == Init /\ [][NextMaint]_vars

(* ---------------------- specification: prices ------------------------- *)
\* price arguments: none, the list price, one yoctoNEAR below the ceiling, the
\* ceiling, and above it
CeilingPrices ==
    {None, Some(U128(0, PRICE)), Some(U128(MAX_PRICE_NEAR - 1, PRICE)),
     Some(U128(MAX_PRICE_NEAR, 0)), Some(U128(MAX_PRICE_NEAR, 1))}

PrCreateSeries ==
    /\ Cardinality(DOMAIN token_series_by_id) < MaxBusySeries
    /\ CreateSeriesWith({CreateArg(OWNER, None, Some("T"), None, p, None, STORAGE_COST) :
                           p \in CeilingPrices})

PrSetPrice ==
    \/ \E sid \in SeriesArgs, price \in CeilingPrices :
           nft_set_series_price(OWNER, 1, sid, price)
    \/ \E sid \in DOMAIN token_series_by_id, cd \in {<<"bob", 1>>, <<OWNER, 0>>},
          price \in {None, Some(U128(0, PRICE))} :
           nft_set_series_price(cd[1], cd[2], sid, price)

PrSetNonMintable ==
    \E sid \in DOMAIN token_series_by_id : nft_set_series_non_mintable(OWNER, 1, sid)

PrSetTransactionFee == set_transaction_fee(OWNER, 1, 100, None)

PrBuy ==
    \E sid \in DOMAIN token_series_by_id :
        nft_buy("bob", sid, "bob", PRICE + STORAGE_COST, FALSE)

NextPrice ==
    \/ PrCreateSeries
    \/ PrSetPrice
    \/ PrSetNonMintable
    \/ PrSetTransactionFee
    \/ PrBuy

SpecPrice == Init /\ [][NextPrice]_vars

(* ------------- specification: creation checks and royalties ----------- *)
\* creation arguments: valid ones, ones with a single fault each, and royalty
\* maps at and around the limits
CreateInputs ==
    OddCreateArgs
    \cup {CreateArg(OWNER, Some(OWNER), Some("T"), None, None, Some(r), STORAGE_COST) :
             r \in {[bob |-> ROYALTY_CEILING], RoyaltyTen, RoyaltyEleven,
                    RoyaltyWrapping, [bob |-> U32_MAX]}}
    \cup {CreateArg("bob", Some("bob"), Some("T"), None, None, None, STORAGE_COST)}

CrCreateSeries == CreateSeriesWith(CreateInputs)

CrCreateSeriesCustom ==
    CreateSeriesCustomWith({<<"7">>},
        {CreateArg(OWNER, Some("bob"), Some("T"), None, None, None, STORAGE_COST),
         CreateArg("bob", Some("bob"), Some("T"), None, None, None, STORAGE_COST),
         CreateArg(OWNER, Some(OWNER), Some("T"), None, None, Some(RoyaltyEleven),
                   STORAGE_COST),
         CreateArg(OWNER, None, Some("T"), None, None, None, STORAGE_COST)})

CrSetTransactionFee == set_transaction_fee(OWNER, 1, 100, Some(1))

NextCreate ==
    \/ AdvanceTime
    \/ CrSetTransactionFee
    \/ CrCreateSeries
    \/ CrCreateSeriesCustom

SpecCreate == Init /\ [][NextCreate]_vars

(* ============================= properties ============================= *)
MintOps == {"nft_buy", "nft_mint_creator", "nft_mint", "nft_mint_and_approve",
            "draw_and_mint"}

\* how many successful mints a series has had
MintCount(s) == IF s \in DOMAIN minted_log THEN Len(minted_log[s]) ELSE 0

\* the schedule with nothing pending
Stable(fee) == [current_fee |-> fee, next_fee |-> None, start_time |-> None]

\* C1: in every reachable state, every series with a copies cap has minted at
\* most that many instances; the minted count is the size of the series'
\* token set, which is the number of successful mints (burns never shrink it)
C1_MintedWithinCap ==
    \A s \in DOMAIN token_series_by_id :
        LET copies == token_series_by_id[s].metadata.copies
        IN /\ Len(token_series_by_id[s].tokens) = MintCount(s)
           /\ IsSome(copies) => U64Le(MintCount(s), Unwrap(copies))

\* a series minted up to its cap has just refused a decrease below the count
C1_Witness ==
    \E s \in DOMAIN token_series_by_id :
        /\ MintCount(s) >= 1
        /\ token_series_by_id[s].metadata.copies = Some(MintCount(s))
        /\ last.op = "nft_decrease_series_copies" /\ last.sid = s /\ ~last.ok
        /\ last.err = "Paras: cannot decrease supply, already minted"

\* C2 (as stated): a series created with cap C has its mintable flag false once
\* C mints have succeeded, and a mint attempt refused in that state is refused
\* with 'Paras: Token series is not mintable'
C2_ClosedAtCap ==
    \A i \in 1..Len(created_log) :
        LET s == created_log[i].id
            C == created_log[i].copies
        IN (IsSome(C) /\ MintCount(s) = Unwrap(C)) =>
              /\ ~token_series_by_id[s].is_mintable
              /\ (last.op \in MintOps /\ last.sid = s /\ ~last.ok)
                     => last.err = "Paras: Token series is not mintable"

\* C3: a series whose mintable flag is false keeps it false in the next state,
\* keeps its token set, and a mint attempt on it fails; so the flag never
\* returns to true and no later mint succeeds
C3_ClosedForever ==
    [][\A s \in DOMAIN token_series_by_id :
          ~token_series_by_id[s].is_mintable =>
              /\ s \in DOMAIN token_series_by_id'
              /\ ~token_series_by_id'[s].is_mintable
              /\ token_series_by_id'[s].tokens = token_series_by_id[s].tokens
              /\ (last'.op \in MintOps /\ last'.sid = s) => ~last'.ok]_vars

\* a mint attempt on a closed series has just been refused
C3_Witness ==
    \E s \in DOMAIN token_series_by_id :
        /\ ~token_series_by_id[s].is_mintable
        /\ last.op \in MintOps /\ last.sid = s /\ ~last.ok
        /\ last.err = "Paras: Token series is not mintable"

\* C4: the k-th successful mint of series s issued s ++ ":" ++ decimal(k), the
\* mint call returned it, and no identifier was issued twice, burnt or not
C4_EditionIds ==
    /\ \A s \in DOMAIN minted_log : \A k \in 1..Len(minted_log[s]) :
           minted_log[s][k] = s \o <<":">> \o Format(k)
    /\ \A s1, s2 \in DOMAIN minted_log :
           \A k1 \in 1..Len(minted_log[s1]), k2 \in 1..Len(minted_log[s2]) :
               minted_log[s1][k1] = minted_log[s2][k2] => (s1 = s2 /\ k1 = k2)
    /\ (last.op \in MintOps /\ last.ok) =>
           last.ret = minted_log[last.sid][MintCount(last.sid)]

\* the second mint of series "1" came after its first token was burnt
C4_Witness ==
    /\ last.op \in MintOps /\ last.ok
    /\ last.ret = <<"1", ":", "2">>
    /\ <<"1", ":", "1">> \notin DOMAIN owner_by_id

\* C5: successful creations, auto-assigned and explicit together, never return
\* the same identifier twice, the stored series are exactly the created ones,
\* and no creation has replaced a stored record (its tokens and cap survive)
C5_UniqueSeriesIds ==
    /\ \A i, j \in 1..Len(created_log) :
           created_log[i].id = created_log[j].id => i = j
    /\ DOMAIN token_series_by_id = {created_log[i].id : i \in 1..Len(created_log)}
    /\ \A i \in 1..Len(created_log) :
           LET s == created_log[i].id
           IN /\ token_series_by_id[s].tokens =
                     (IF s \in DOMAIN minted_log THEN minted_log[s] ELSE <<>>)
              /\ token_series_by_id[s].metadata.copies = created_log[i].copies

\* an auto-assigned identifier met an explicit one and the creation was refused
C5_Witness ==
    /\ last.op = "nft_create_series" /\ ~last.ok
    /\ last.err = "Paras: duplicate token_series_id"
    /\ last.sid \in DOMAIN token_series_by_id
    /\ MintCount(last.sid) >= 1

\* C6: every series' fee snapshot is the settled fee observed at its latest
\* successful creation or price change, whatever the schedule did since, and
\* nft_buy pays the treasury price * snapshot / 10_000
C6_SnapshotLocked ==
    /\ \A s \in DOMAIN token_series_by_id :
           /\ s \in DOMAIN market_data_transaction_fee
           /\ market_data_transaction_fee[s] = snapshot_log[s]
    /\ (last.op = "nft_buy" /\ last.ok) =>
           /\ last.treasury = (last.num * snapshot_log[last.sid]) \div BPS_DENOM
           /\ last.creator = last.num - last.treasury

\* a purchase settled while the live fee differed from the series' snapshot
C6_Witness ==
    /\ last.op = "nft_buy" /\ last.ok
    /\ snapshot_log[last.sid] # ObservedFee(transaction_fee, block_timestamp)
    /\ last.treasury # (last.num * ObservedFee(transaction_fee, block_timestamp))
                           \div BPS_DENOM

\* C7: a successful set_transaction_fee(next, Some(t)) leaves current_fee alone
\* with (next, t) pending; calculate_current_transaction_fee before second t
\* changes nothing and returns the old fee, at or after t it makes next the
\* current fee and clears the pair, and with nothing pending it changes nothing
C7_ScheduleObservation ==
    /\ (last.op = "set_transaction_fee" /\ last.ok /\ IsSome(last.args[2])) =>
           transaction_fee = [current_fee |-> last.before.current_fee,
                              next_fee |-> Some(last.num),
                              start_time |-> last.args[2]]
    /\ last.op = "calculate_current_transaction_fee" =>
           LET b == last.before
           IN IF IsSome(b.next_fee) /\ to_sec(block_timestamp) >= Unwrap(b.start_time)
              THEN transaction_fee = Stable(Unwrap(b.next_fee))
                   /\ last.num = Unwrap(b.next_fee)
              ELSE transaction_fee = b /\ last.num = b.current_fee

\* a settlement has just activated a pending fee
C7_Witness ==
    /\ last.op = "calculate_current_transaction_fee"
    /\ IsSome(last.before.next_fee)
    /\ transaction_fee = Stable(Unwrap(last.before.next_fee))
    /\ transaction_fee.current_fee # last.before.current_fee

\* C8 (as stated): whatever get_transaction_fee, get_market_data_transaction_fee
\* (series without snapshot), nft_get_series_single, nft_create_series and
\* nft_set_series_price use or return as the current fee is the settled fee:
\* the pending fee once it is due
C8_ReadsSettle ==
    /\ last.op = "get_transaction_fee" =>
           last.num = ObservedFee(transaction_fee, block_timestamp)
    /\ (last.op = "get_market_data_transaction_fee"
            /\ last.sid \notin DOMAIN market_data_transaction_fee) =>
           last.num = ObservedFee(transaction_fee, block_timestamp)
    /\ (last.op \in {"nft_create_series", "nft_set_series_price"} /\ last.ok) =>
           last.num = snapshot_log[last.sid]

\* C9: a pending fee is below 10_000 and has an activation time; a scheduling
\* call that succeeded named a second after the one it ran in; a call with
\* next_fee >= 10_000, with an activation time not in the future, or made by
\* someone else than the owner failed; a failed call left the schedule as it was
C9_PendingFeeValid ==
    /\ IsSome(transaction_fee.next_fee) =>
           /\ Unwrap(transaction_fee.next_fee) < FEE_LIMIT
           /\ IsSome(transaction_fee.start_time)
    /\ last.op = "set_transaction_fee" =>
           LET start_time == last.args[2]
           IN /\ (last.ok /\ IsSome(start_time)) =>
                     /\ Unwrap(start_time) > to_sec(block_timestamp)
                     /\ transaction_fee.start_time = start_time
              /\ (\/ last.num >= FEE_LIMIT
                  \/ IsSome(start_time) /\ Unwrap(start_time) <= to_sec(block_timestamp)
                  \/ last.caller # OWNER) => ~last.ok
              /\ ~last.ok => transaction_fee = last.before

\* the owner's fee of 10_000 was refused and the pending change was kept
C9_Witness ==
    /\ last.op = "set_transaction_fee" /\ ~last.ok
    /\ last.caller = OWNER /\ last.args[1] = 1 /\ last.num = FEE_LIMIT
    /\ IsSome(transaction_fee.next_fee)

\* C10: set_transaction_fee(next, None) by the owner, with one yocto and
\* next < 10_000, succeeds, and after it the schedule is current_fee = next
\* with nothing pending
C10_ImmediateFee ==
    (last.op = "set_transaction_fee" /\ last.args[2] = None) =>
        /\ (last.caller = OWNER /\ last.args[1] = 1 /\ last.num < FEE_LIMIT) => last.ok
        /\ last.ok => transaction_fee = Stable(last.num)

\* an immediate change replaced the fee while another change was pending
C10_Witness ==
    /\ last.op = "set_transaction_fee" /\ last.ok /\ last.args[2] = None
    /\ IsSome(last.before.next_fee)
    /\ last.num # last.before.current_fee
    /\ transaction_fee = Stable(last.num)

\* the last call returned a payout map
PayoutMade ==
    /\ last.op \in {"nft_payout", "nft_transfer_payout"} /\ last.ok
    /\ last.op = "nft_transfer_payout" => IsSome(last.args[2])
\* the token's owner when the call was made, its series' royalty map, and the
\* amount and the limit the caller gave
PayoutOwner == last.before[last.ret]
PayoutRoyalty == token_series_by_id[last.sid].royalty
PayoutBalance == IF last.op = "nft_payout" THEN last.args[2] ELSE Unwrap(last.args[2])
PayoutMaxLen == IF last.op = "nft_payout" THEN last.args[3] ELSE Unwrap(last.args[3])
\* a royalty map within the limits of creation: at most 10 entries, every
\* entry and their sum at most 9000 (an entry held as a negative number is
\* 2^31 or more)
RoyaltyWithinLimits(r) ==
    /\ Cardinality(DOMAIN r) <= MAX_ROYALTY_ACCOUNTS
    /\ \A k \in DOMAIN r : r[k] >= 0 /\ r[k] <= ROYALTY_CEILING
    /\ SumOver(r, DOMAIN r) <= ROYALTY_CEILING
\* floor(bps * amount / 10000) for a u32 bps
FloorShare(bps, amount) ==
    IF bps >= 0 THEN (bps * amount) \div 10000
    ELSE 429496 * amount + ((7296 + bps) * amount) \div 10000

\* C11: a returned payout map holds floor(R[a] * A / 10000) for every royalty
\* account a other than the owner o, and for o the floor of
\* (10000 - sum of R[a] over a # o) * A / 10000; entries keyed by o are folded
\* into that share. Where an entry is 2^31 or more the bracket is negative, so
\* the owner's figure can be met only by the amount 0
C11_PayoutShares ==
    PayoutMade =>
        LET others == (DOMAIN PayoutRoyalty) \ {PayoutOwner}
        IN /\ DOMAIN last.payout = others \cup {PayoutOwner}
           /\ \A a \in others :
                  last.payout[a] = FloorShare(PayoutRoyalty[a], PayoutBalance)
           /\ IF \A a \in others : PayoutRoyalty[a] >= 0
              THEN last.payout[PayoutOwner] =
                       ((10000 - SumOver(PayoutRoyalty, others)) * PayoutBalance) \div 10000
              ELSE PayoutBalance = 0 /\ last.payout[PayoutOwner] = 0

\* C12: for a royalty map whose entries sum to B <= 9000 and an amount A, the
\* payouts sum to at most A and the owner's payout is at least
\* floor((10000 - B) * A / 10000)
C12_PayoutWithinAmount ==
    (PayoutMade /\ RoyaltyWithinLimits(PayoutRoyalty)) =>
        LET B == SumOver(PayoutRoyalty, DOMAIN PayoutRoyalty)
        IN /\ SumOver(last.payout, DOMAIN last.payout) <= PayoutBalance
           /\ last.payout[PayoutOwner] >= ((10000 - B) * PayoutBalance) \div 10000

\* a transfer paid out with rounding dust left over and the owner's own
\* royalty entry folded into the owner's share
C12_Witness ==
    /\ PayoutMade /\ last.op = "nft_transfer_payout"
    /\ RoyaltyWithinLimits(PayoutRoyalty)
    /\ PayoutOwner \in DOMAIN PayoutRoyalty
    /\ SumOver(PayoutRoyalty, DOMAIN PayoutRoyalty) = ROYALTY_CEILING
    /\ PayoutBalance > 0
    /\ SumOver(last.payout, DOMAIN last.payout) < PayoutBalance
    /\ last.payout[PayoutOwner] > (1000 * PayoutBalance) \div 10000
    /\ owner_by_id[last.ret] # PayoutOwner

\* C13: a returned payout map never has more entries than the caller's
\* max_len_payout: a call whose payees (the royalty accounts other than the
\* owner, and the owner) number more than that fails
C13_PayeesWithinLimit ==
    PayoutMade => Cardinality(DOMAIN last.payout) <= PayoutMaxLen

\* C14: of a draw pool of size N every index is drawn at most once and only
\* indices in [0, N) are drawn, so the successful draws are pairwise distinct
\* and number N less the pool left; a draw on the empty pool fails; at most N
\* draw_and_mint calls succeed
C14_DrawsWithoutReplacement ==
    /\ [](/\ raffle \subseteq 0..(RafflePool - 1)
          /\ \A index \in 0..(RafflePool - 1) :
                 MintCount(Format(index + 1)) = IF index \in raffle THEN 0 ELSE 1
          /\ \A s \in DOMAIN minted_log :
                 \E index \in 0..(RafflePool - 1) : s = Format(index + 1)
          /\ token_series_id_minted = RafflePool - Cardinality(raffle)
          /\ (last.op = "draw_and_mint" /\ last.ok) =>
                 /\ last.num \in (0..(RafflePool - 1)) \ raffle
                 /\ SplitFirst(last.ret) = Format(last.num + 1))
    /\ [][(last'.op = "draw_and_mint" /\ raffle = {}) => ~last'.ok]_vars
    /\ [][(last'.op = "draw_and_mint" /\ last'.ok) =>
             /\ last'.num \in raffle
             /\ raffle' = raffle \ {last'.num}]_vars

\* every index of the pool has been drawn and one more draw was refused
C14_Witness ==
    /\ raffle = {}
    /\ token_series_id_minted = RafflePool
    /\ \A index \in 0..(RafflePool - 1) : MintCount(Format(index + 1)) = 1
    /\ last.op = "draw_and_mint" /\ ~last.ok
    /\ last.err = "Raffle: pool exhausted"

\* C15: in a successful nft_buy of a series priced P whose royalty map is one
\* account at 1000 basis points, bought under the fee f, the creator receives
\* nine tenths of P less the fee portion and the treasury floor(P * f / 10000)
C15_BuyProceeds ==
    (/\ last.op = "nft_buy" /\ last.ok
     /\ \E a \in Accounts : token_series_by_id[last.sid].royalty = (a :> 1000)) =>
        LET P == last.num
            f == market_data_transaction_fee[last.sid]
            fee_portion == (P * f) \div BPS_DENOM
        IN /\ last.treasury = fee_portion
           /\ last.creator = ((9 * P) \div 10) - fee_portion

CreateOps == {"nft_create_series", "nft_create_series_custom"}

C18_AutoIdFresh ==
    /\ next_series_id \notin DOMAIN token_series_by_id
    /\ last.op = "nft_create_series" => last.err # "Paras: duplicate token_series_id"

\* C19: a successful nft_create_series by caller c on a registry of size n
\* stores, next to the series already there, a series n+1 with creator c, the
\* metadata and royalty map given, mintable, nothing minted, and the settled
\* fee as its snapshot; nft_get_series_single returns these values
C19_CreatedSeriesStored ==
    (last.op = "nft_create_series" /\ last.ok) =>
        LET n == Cardinality(DOMAIN last.before)
            id == Format(n + 1)
            given_royalty == UnwrapOr(last.args[4], << >>)
        IN /\ last.ret = id
           /\ DOMAIN token_series_by_id = DOMAIN last.before \cup {id}
           /\ \A other \in DOMAIN last.before :
                  token_series_by_id[other] = last.before[other]
           /\ token_series_by_id[id].creator_id = last.caller
           /\ token_series_by_id[id].metadata = last.args[2]
           /\ token_series_by_id[id].royalty = given_royalty
           /\ token_series_by_id[id].is_mintable
           /\ token_series_by_id[id].tokens = <<>>
           /\ market_data_transaction_fee[id] = snapshot_log[id]
           /\ nft_get_series_single(id) =
                  [token_series_id |-> id,
                   metadata |-> last.args[2],
                   creator_id |-> last.caller,
                   royalty |-> given_royalty,
                   transaction_fee |-> Some(snapshot_log[id])]

C19_Witness ==
    /\ last.op = "nft_create_series" /\ last.ok
    /\ last.ret = <<"2">>
    /\ last.before # << >>
    /\ last.args[4] = Some(RoyaltyTen)
    /\ snapshot_log[last.ret] = 100
    /\ transaction_fee.next_fee = None
    /\ last.before[<<"1">>].royalty = << >>

\* C20: every stored royalty map has at most 10 entries and sums to at most
\* 9000 basis points, and a creation whose map has more than 10 entries or
\* sums above 9000 (an entry above 9000 already does) is refused
C20_RoyaltyBounded ==
    /\ \A sid \in DOMAIN token_series_by_id :
           RoyaltyWithinLimits(token_series_by_id[sid].royalty)
    /\ (last.op \in CreateOps /\ ~RoyaltyWithinLimits(UnwrapOr(last.args[4], << >>)))
           => ~last.ok


\* a stored price is below MAX_PRICE
PriceBelowCeiling(price) == price.hi < MAX_PRICE_NEAR

\* C21: the price of every series, when set, is strictly below MAX_PRICE;
\* a creation and an nft_set_series_price given a price at or above MAX_PRICE
\* fail and leave the registry and the fee snapshots as they were
C21_PriceBelowMax ==
    /\ [](\A sid \in DOMAIN token_series_by_id :
              IsSome(token_series_by_id[sid].price) =>
                  PriceBelowCeiling(Unwrap(token_series_by_id[sid].price)))
    /\ [][LET price == IF last'.op = "nft_set_series_price"
                       THEN last'.args[1] ELSE last'.args[3]
          IN (/\ last'.op \in CreateOps \cup {"nft_set_series_price"}
              /\ IsSome(price) /\ ~PriceBelowCeiling(Unwrap(price))) =>
                 /\ ~last'.ok
                 /\ UNCHANGED <<token_series_by_id, market_data_transaction_fee,
                                transaction_fee>>]_vars

\* a price one yoctoNEAR-limb below the ceiling is stored, and the ceiling
\* itself has just been refused for that series
C21_Witness ==
    /\ last.op = "nft_set_series_price" /\ ~last.ok
    /\ last.args[1] = Some(U128(MAX_PRICE_NEAR, 0))
    /\ last.err = "Paras: price higher than MAX_PRICE"
    /\ last.sid \in DOMAIN token_series_by_id
    /\ token_series_by_id[last.sid].price = Some(U128(MAX_PRICE_NEAR - 1, PRICE))

\* C22: nft_set_series_price fails, leaving the series' price and its fee
\* snapshot as they were, when the series does not exist, the caller is not
\* its creator, or it is no longer mintable; a successful call with no price
\* leaves the series without price, and an nft_buy of a series without price
\* fails with 'Paras: not for sale'
C22_SetPriceGuards ==
    /\ [][last'.op = "nft_set_series_price" =>
            /\ (\/ last'.sid \notin DOMAIN token_series_by_id
                \/ last'.caller # token_series_by_id[last'.sid].creator_id
                \/ ~token_series_by_id[last'.sid].is_mintable) =>
                   /\ ~last'.ok
                   /\ UNCHANGED <<token_series_by_id, market_data_transaction_fee>>
            /\ (last'.ok /\ last'.args[1] = None) =>
                   token_series_by_id'[last'.sid].price = None]_vars
    /\ [][(/\ last'.op = "nft_buy"
           /\ last'.sid \in DOMAIN token_series_by_id
           /\ token_series_by_id[last'.sid].price = None) =>
              /\ ~last'.ok
              /\ last'.err = "Paras: not for sale"]_vars

\* a series that was sold once, then had its price taken away, refuses a buyer
C22_Witness ==
    /\ last.op = "nft_buy" /\ ~last.ok /\ last.err = "Paras: not for sale"
    /\ MintCount(last.sid) >= 1
    /\ token_series_by_id[last.sid].price = None
    /\ token_series_by_id[last.sid].is_mintable

\* C23: nft_decrease_series_copies(s, delta) by the creator of a capped
\* series fails, leaving the series as it was, when cap - delta is below the
\* minted count; otherwise it stores and returns cap - delta, and closes the
\* series exactly when that equals the minted count
C23_DecreaseCopies ==
    [][(/\ last'.op = "nft_decrease_series_copies"
        /\ last'.sid \in DOMAIN token_series_by_id
        /\ last'.caller = token_series_by_id[last'.sid].creator_id
        /\ IsSome(token_series_by_id[last'.sid].metadata.copies)) =>
           LET series_before == token_series_by_id[last'.sid]
               series_after == token_series_by_id'[last'.sid]
               cap == Unwrap(series_before.metadata.copies)
               delta == last'.args[1]
               minted_count == Len(series_before.tokens)
           IN IF cap - delta < minted_count
              THEN ~last'.ok /\ series_after = series_before
              ELSE last'.ok =>
                      /\ series_after.metadata.copies = Some(cap - delta)
                      /\ last'.num = cap - delta
                      /\ series_after.is_mintable =
                             (IF cap - delta = minted_count THEN FALSE
                              ELSE series_before.is_mintable)
                      /\ series_after =
                             [series_before EXCEPT !.metadata.copies = Some(cap - delta),
                                                   !.is_mintable = series_after.is_mintable]]_vars

\* C24: the copies cap of a series never increases: whatever delta is given,
\* nft_decrease_series_copies fails and leaves the cap, or leaves a cap that
\* is at most the old one
C24_CapNeverIncreases ==
    [][\A sid \in DOMAIN token_series_by_id :
          LET copies_before == token_series_by_id[sid].metadata.copies
              copies_after == token_series_by_id'[sid].metadata.copies
          IN /\ IsSome(copies_before) =>
                    /\ IsSome(copies_after)
                    /\ U64Le(Unwrap(copies_after), Unwrap(copies_before))
             /\ (last'.op = "nft_decrease_series_copies" /\ ~last'.ok) => copies_after = copies_before]_vars

\* C25: nft_set_series_non_mintable succeeds only when the caller is the
\* series creator, the series is mintable and it has no copies cap; it then
\* sets mintable to false and changes nothing else; in every other case it
\* fails and leaves the contract as it was
C25_SetNonMintable ==
    [][last'.op = "nft_set_series_non_mintable" =>
          LET sid == last'.sid
              allowed == /\ sid \in DOMAIN token_series_by_id
                         /\ last'.caller = token_series_by_id[sid].creator_id
                         /\ token_series_by_id[sid].is_mintable
                         /\ token_series_by_id[sid].metadata.copies = None
          IN /\ last'.ok => allowed
             /\ last'.ok =>
                    /\ token_series_by_id' =
                           [token_series_by_id EXCEPT ![sid].is_mintable = FALSE]
                    /\ UNCHANGED <<transaction_fee, market_data_transaction_fee,
                                   owner_by_id, tokens_per_owner, token_series_id_minted,
                                   raffle, seller_by_id, account_id_og, approvals_by_id,
                                   next_approval_id_by_id>>
             /\ ~allowed => (~last'.ok /\ UNCHANGED contract)]_vars

\* an uncapped series with an instance minted has just been closed by hand
C25_Witness ==
    /\ last.op = "nft_set_series_non_mintable" /\ last.ok
    /\ MintCount(last.sid) >= 1
    /\ ~token_series_by_id[last.sid].is_mintable
    /\ token_series_by_id[last.sid].metadata.copies = None
    /\ owner_by_id # << >>

\* C26: nft_burn succeeds only when the caller is the current owner of the
\* instance; after a successful burn the instance has no owner, is in no
\* entry of the owner index (the former owner's included), nft_token returns
\* None for it, and the minted count of its series and the edition number the
\* next mint of that series would get are what they were before
C26_Burn ==
    [][(last'.op = "nft_burn" /\ last'.ok) =>
          /\ last'.args[1] \in DOMAIN owner_by_id
          /\ \A token_id \in DOMAIN owner_by_id : last'.args = <<token_id>> =>
                 LET sid == SplitFirst(token_id) IN
                 /\ last'.caller = owner_by_id[token_id]
                 /\ token_id \notin DOMAIN owner_by_id'
                 /\ owner_by_id[token_id] \in DOMAIN tokens_per_owner'
                        => token_id \notin tokens_per_owner'[owner_by_id[token_id]]
                 /\ \A a \in DOMAIN tokens_per_owner' : token_id \notin tokens_per_owner'[a]
                 /\ nft_token(token_id)' = None
                 /\ sid \in DOMAIN token_series_by_id
                 /\ Len(token_series_by_id'[sid].tokens) = Len(token_series_by_id[sid].tokens)
                 /\ edition_number(Len(token_series_by_id'[sid].tokens))
                        = edition_number(Len(token_series_by_id[sid].tokens))]_vars

\* the owner has just burned one of two instances of a series and still
\* holds the other one
C26_Witness ==
    /\ last.op = "nft_burn" /\ last.ok
    /\ last.args[1] \notin DOMAIN owner_by_id
    /\ Len(token_series_by_id[last.sid].tokens) = 2
    /\ \E t \in Range(token_series_by_id[last.sid].tokens) :
           /\ t # last.args[1]
           /\ t \in DOMAIN owner_by_id
           /\ owner_by_id[t] = last.caller

(* --------------------- specification: transfers ----------------------- *)
TrCreateSeries ==
    /\ Cardinality(DOMAIN token_series_by_id) < MaxBusySeries
    /\ CreateSeriesWith(GoodCreateArgs({Some(MaxCopies)}, {None}))

TrMintCreator ==
    \E sid \in DOMAIN token_series_by_id : nft_mint_creator(OWNER, sid, "bob", STORAGE_COST)

\* an account that never holds an instance
Outsider == TREASURY

\* a token id no mint has returned
MissingToken == <<"9", ":", "1">>

TrTransfer ==
    \/ \E token_id \in DOMAIN owner_by_id, receiver_id \in Accounts :
           nft_transfer(owner_by_id[token_id], 1, receiver_id, token_id, None)
    \/ \E token_id \in TokenArgs : nft_transfer(Outsider, 0, OWNER, token_id, None)

TrTransferCall ==
    \/ /\ Len(promises) < MaxPending
       /\ \E token_id \in DOMAIN owner_by_id, receiver_id \in Accounts :
              nft_transfer_call(owner_by_id[token_id], 1, receiver_id, token_id, None)
    \/ \E token_id \in TokenArgs : nft_transfer_call(Outsider, 1, OWNER, token_id, None)
    \/ nft_transfer_call(OWNER, 0, "bob", MissingToken, None)

\* the runtime delivers the callback of any scheduled promise with either
\* answer of the receiver; an account calling the method itself is refused
TrResolveTransfer ==
    \/ \E i \in 1..Len(promises), must_revert \in BOOLEAN :
           nft_resolve_transfer(CONTRACT, i, promises[i], must_revert)
    \/ nft_resolve_transfer("bob", 0,
           [previous_owner_id |-> "bob", receiver_id |-> OWNER,
            token_id |-> MissingToken, approved_account_ids |-> None], TRUE)

TrBurn ==
    \/ \E token_id \in DOMAIN owner_by_id : nft_burn(owner_by_id[token_id], 1, token_id)
    \/ \E token_id \in TokenArgs : nft_burn(Outsider, 1, token_id)

NextTransfer ==
    \/ TrCreateSeries
    \/ TrMintCreator
    \/ TrTransfer
    \/ TrTransferCall
    \/ TrResolveTransfer
    \/ TrBurn

SpecTransfer == Init /\ [][NextTransfer]_vars

\* the scheduled promise a resolution step has just run
ResolvedPromise == last.args[1]

\* the resolution just run ended with exactly the compensating event, from
\* the receiver back to the previous owner
CompensatingEventOnly ==
    last.events = <<log_nft_transfer(ResolvedPromise.receiver_id,
                                     ResolvedPromise.previous_owner_id,
                                     <<ResolvedPromise.token_id>>, None)>>

EvCreateSeries ==
    \/ /\ Cardinality(DOMAIN token_series_by_id) < MaxBusySeries
       /\ CreateSeriesWith(GoodCreateArgs({Some(MaxCopies)}, {Some(U128(0, PRICE))}))
    \/ CreateSeriesWith({CreateArg("bob", None, Some("T"), None, None, None, STORAGE_COST)})

EvCreateSeriesCustom ==
    /\ Cardinality(DOMAIN token_series_by_id) < MaxBusySeries
    /\ CreateSeriesCustomWith({<<"7">>},
           {CreateArg(OWNER, None, Some("T"), Some(MaxCopies), None, None, d) :
               d \in {0, STORAGE_COST}})

EvSetNonMintable ==
    \E sid \in DOMAIN token_series_by_id, caller \in Accounts :
        nft_set_series_non_mintable(caller, 1, sid)

EvDecreaseCopies ==
    \E sid \in DOMAIN token_series_by_id, d \in {0, 1} :
        nft_decrease_series_copies(OWNER, 1, sid, d, TRUE)

EvSetPrice ==
    \E sid \in DOMAIN token_series_by_id, caller \in Accounts :
        nft_set_series_price(caller, 1, sid, Some(U128(0, PRICE)))

EvBuy ==
    /\ token_series_id_minted < MaxEventTokens
    /\ \E sid \in DOMAIN token_series_by_id, deposit \in {PRICE, PRICE + STORAGE_COST} :
           nft_buy("bob", sid, "bob", deposit, TRUE)

EvMintCreator ==
    /\ token_series_id_minted < MaxEventTokens
    /\ \E sid \in DOMAIN token_series_by_id, caller \in Accounts :
           nft_mint_creator(caller, sid, "bob", STORAGE_COST)

EvDrawAndMint ==
    /\ token_series_id_minted < MaxEventTokens
    /\ \E index \in 0..(MaxSupplyRaffle - 1), deposit \in {0, STORAGE_COST} :
           draw_and_mint("bob", OWNER, deposit, index)

EvAddOg == add_og_account_id(OWNER, 1, "bob", 1)

EvMint ==
    /\ token_series_id_minted < MaxEventTokens
    /\ \E sid \in DOMAIN token_series_by_id : nft_mint("bob", sid, "bob", STORAGE_COST)

EvMintAndApprove ==
    /\ token_series_id_minted < MaxEventTokens
    /\ \E sid \in DOMAIN token_series_by_id, caller \in Accounts :
           nft_mint_and_approve(caller, sid, "bob", STORAGE_COST)

EvBurn ==
    \E token_id \in TokenArgs, caller \in Accounts : nft_burn(caller, 1, token_id)

EvTransfer ==
    \E token_id \in DOMAIN owner_by_id, caller \in Accounts, receiver_id \in Accounts :
        nft_transfer(caller, 1, receiver_id, token_id, None)

EvTransferUnsafe ==
    \E token_id \in TokenArgs, caller \in Accounts :
        nft_transfer_unsafe(caller, OWNER, token_id, None)

EvTransferCall ==
    /\ Len(promises) < MaxPending
    /\ \E token_id \in DOMAIN owner_by_id, caller \in Accounts, receiver_id \in Accounts :
           nft_transfer_call(caller, 1, receiver_id, token_id, None)

EvResolveTransfer ==
    \E i \in 1..Len(promises), must_revert \in BOOLEAN :
        nft_resolve_transfer(CONTRACT, i, promises[i], must_revert)

EvTransferPayout ==
    \E token_id \in DOMAIN owner_by_id, caller \in Accounts :
        nft_transfer_payout(caller, 1, OWNER, token_id, None, Some(1999), Some(3), FALSE)

NextEvents ==
    \/ EvCreateSeries
    \/ EvCreateSeriesCustom
    \/ EvSetNonMintable
    \/ EvDecreaseCopies
    \/ EvSetPrice
    \/ EvBuy
    \/ EvMintCreator
    \/ EvDrawAndMint
    \/ EvAddOg
    \/ EvMint
    \/ EvMintAndApprove
    \/ EvBurn
    \/ EvTransfer
    \/ EvTransferUnsafe
    \/ EvTransferCall
    \/ EvResolveTransfer
    \/ EvTransferPayout

SpecEvents == Init /\ [][NextEvents]_vars

\* the operations that write an event when they succeed, by kind
SeriesChangeOps ==
    {"nft_set_series_non_mintable", "nft_decrease_series_copies", "nft_set_series_price"}
TransferOps == {"nft_transfer", "nft_transfer_unsafe", "nft_transfer_call", "nft_transfer_payout"}

\* C29: a failed call leaves no event; a successful creation leaves exactly
\* one nft_create_series event naming the series it stored; a successful
\* mintability, price or cap change exactly one event of its own kind naming
\* its series; a successful mint, on each of the five paths, exactly one
\* nft_mint event naming the one instance it issued and its owner; a
\* successful burn exactly one nft_burn event naming the one instance that
\* lost its owner; a successful transfer exactly one nft_transfer event
\* naming the instance, its owner before and its owner after; a resolution
\* one nft_transfer event if it moved the instance back and none otherwise
C29_OneEventPerChange ==
    [][LET ev == last'.events
           minted == (DOMAIN owner_by_id') \ (DOMAIN owner_by_id)
           burned == (DOMAIN owner_by_id) \ (DOMAIN owner_by_id')
           moved == {t \in (DOMAIN owner_by_id) \cap (DOMAIN owner_by_id') :
                        owner_by_id'[t] # owner_by_id[t]}
           created == (DOMAIN token_series_by_id') \ (DOMAIN token_series_by_id)
           OneTransfer ==
               /\ Len(ev) = 1
               /\ ev[1].event = "nft_transfer"
               /\ \E t \in moved :
                      /\ moved = {t}
                      /\ ev[1].token_ids = <<t>>
                      /\ ev[1].old_owner_id = Some(owner_by_id[t])
                      /\ ev[1].new_owner_id = Some(owner_by_id'[t])
       IN /\ ~last'.ok => ev = <<>>
          /\ (last'.ok /\ last'.op \in CreateOps) =>
                 /\ Len(ev) = 1
                 /\ ev[1].event = "nft_create_series"
                 /\ created = {ev[1].token_series_id}
          /\ (last'.ok /\ last'.op \in SeriesChangeOps) =>
                 /\ Len(ev) = 1
                 /\ ev[1].event = last'.op
                 /\ ev[1].token_series_id = last'.sid
                 /\ \A sid \in DOMAIN token_series_by_id : sid # last'.sid =>
                        token_series_by_id'[sid] = token_series_by_id[sid]
          /\ (last'.ok /\ last'.op \in MintOps) =>
                 /\ Len(ev) = 1
                 /\ ev[1].event = "nft_mint"
                 /\ \E t \in minted :
                        /\ minted = {t}
                        /\ ev[1].token_ids = <<t>>
                        /\ ev[1].new_owner_id = Some(owner_by_id'[t])
          /\ (last'.ok /\ last'.op = "nft_burn") =>
                 /\ Len(ev) = 1
                 /\ ev[1].event = "nft_burn"
                 /\ \E t \in burned :
                        /\ burned = {t}
                        /\ ev[1].token_ids = <<t>>
                        /\ ev[1].old_owner_id = Some(owner_by_id[t])
          /\ (last'.ok /\ last'.op \in TransferOps) => OneTransfer
          /\ (last'.ok /\ last'.op = "nft_resolve_transfer") =>
                 IF moved = {} THEN ev = <<>> ELSE OneTransfer
          /\ (minted # {} \/ burned # {} \/ moved # {} \/ created # {}) => Len(ev) = 1]_vars

\* every token id a mint has returned
MintedTokens == UNION {Range(minted_log[s]) : s \in DOMAIN minted_log}

\* the accounts whose owner index holds the token
IndexedBy(token_id) ==
    {a \in DOMAIN tokens_per_owner : token_id \in tokens_per_owner[a]}

\* C30: in every reachable state an instance that has an owner is in the
\* owner index of that account and of no other; an identifier without owner,
\* burned or never minted, is in no owner index; only minted identifiers have
\* an owner; and a minted instance loses its owner only by a successful burn
\* of it, whatever mints, burns, transfers and resolutions take place
C30_OneOwnerOneIndex ==
    /\ [](/\ \A t \in DOMAIN owner_by_id : IndexedBy(t) = {owner_by_id[t]}
          /\ \A a \in DOMAIN tokens_per_owner : tokens_per_owner[a] \subseteq DOMAIN owner_by_id
          /\ DOMAIN owner_by_id \subseteq MintedTokens
          /\ \A t \in TokenArgs \ DOMAIN owner_by_id : IndexedBy(t) = {})
    /\ [][\A t \in DOMAIN owner_by_id : t \notin DOMAIN owner_by_id' =>
              (last'.op = "nft_burn" /\ last'.ok /\ last'.args = <<t>>)]_vars

\* a resolution has just returned one instance to its previous owner while
\* the other instance of the series is burned: the first is in its owner's
\* index alone, the second in none
C30_Witness ==
    /\ last.op = "nft_resolve_transfer" /\ last.ok /\ ~last.ret
    /\ \E t \in DOMAIN owner_by_id, b \in MintedTokens \ DOMAIN owner_by_id :
           /\ t = last.args[1].token_id
           /\ owner_by_id[t] = last.args[1].previous_owner_id
           /\ IndexedBy(t) = {owner_by_id[t]}
           /\ IndexedBy(b) = {}

(* ----------------------- specification: ledger ------------------------ *)
\* two series, every mint path, burns and transfers of the minted instances
LgCreateSeries ==
    /\ Cardinality(DOMAIN token_series_by_id) < MaxSeries
    /\ CreateSeriesWith(GoodCreateArgs({None, Some(1)}, {Some(U128(0, PRICE))}))

LgBuy ==
    \E sid \in DOMAIN token_series_by_id :
        nft_buy("bob", sid, "bob", PRICE + STORAGE_COST, FALSE)

LgMintCreator ==
    \E sid \in DOMAIN token_series_by_id, deposit \in {0, STORAGE_COST} :
        nft_mint_creator(OWNER, sid, "bob", deposit)

LgDrawAndMint ==
    \E index \in 0..(MaxSupplyRaffle - 1) : draw_and_mint("bob", "bob", STORAGE_COST, index)

LgAddOg == add_og_account_id(OWNER, 1, "bob", 1)

LgMint == \E sid \in DOMAIN token_series_by_id : nft_mint("bob", sid, "bob", STORAGE_COST)

LgMintAndApprove ==
    \E sid \in DOMAIN token_series_by_id :
        nft_mint_and_approve(OWNER, sid, "bob", STORAGE_COST)

LgBurn ==
    \E token_id \in DOMAIN owner_by_id : nft_burn(owner_by_id[token_id], 1, token_id)

LgTransfer ==
    \E token_id \in DOMAIN owner_by_id :
        nft_transfer(owner_by_id[token_id], 1, "bob", token_id, None)

NextLedger ==
    \/ LgCreateSeries
    \/ LgBuy
    \/ LgMintCreator
    \/ LgDrawAndMint
    \/ LgAddOg
    \/ LgMint
    \/ LgMintAndApprove
    \/ LgBurn
    \/ LgTransfer

SpecLedger == Init /\ [][NextLedger]_vars

\* the sum over all series of the size of their token sets
SeriesMintedTotal ==
    SumOver([s \in DOMAIN token_series_by_id |-> Len(token_series_by_id[s].tokens)],
            DOMAIN token_series_by_id)

\* the number of mints that have succeeded so far
SuccessfulMints == SumOver([s \in DOMAIN minted_log |-> Len(minted_log[s])], DOMAIN minted_log)

\* C31: in every reachable state the global minted counter equals the number
\* of successful mints and the sum over all series of their minted counts;
\* a successful mint raises it by exactly 1 and no other call, a burn or a
\* transfer included, changes it
C31_MintedCounter ==
    /\ [](/\ token_series_id_minted = SuccessfulMints
          /\ token_series_id_minted = SeriesMintedTotal)
    /\ [][IF last'.ok /\ last'.op \in MintOps
          THEN token_series_id_minted' = token_series_id_minted + 1
          ELSE token_series_id_minted' = token_series_id_minted]_vars

\* both series have minted, one instance has since been burned, and a
\* transfer has just moved the other: the counter still reads 2
C31_Witness ==
    /\ last.op = "nft_transfer" /\ last.ok
    /\ token_series_id_minted = 2
    /\ \A s \in DOMAIN token_series_by_id : Len(token_series_by_id[s].tokens) = 1
    /\ Cardinality(DOMAIN token_series_by_id) = 2
    /\ Cardinality(DOMAIN owner_by_id) = 1

(* ----------------------- specification: refunds ----------------------- *)
\* deposits around the storage cost: one short, exact, one and two above
RefundDeposits == {STORAGE_COST - 1, STORAGE_COST, STORAGE_COST + 1, STORAGE_COST + 2}

RdCreateSeries ==
    /\ Cardinality(DOMAIN token_series_by_id) < MaxBusySeries
    /\ CreateSeriesWith({CreateArg(OWNER, None, Some("T"), Some(MaxCopies),
                                   Some(U128(0, PRICE)), None, d) : d \in RefundDeposits})

RdCreateSeriesCustom ==
    /\ Cardinality(DOMAIN token_series_by_id) < MaxBusySeries
    /\ CreateSeriesCustomWith({<<"1">>},
           {CreateArg(OWNER, None, Some("T"), Some(MaxCopies), Some(U128(0, PRICE)), None, d) :
               d \in RefundDeposits})

\* purchases with a deposit below the price, and with the price and each
\* of the deposits above
RdBuy ==
    \E sid \in DOMAIN token_series_by_id, d \in {PRICE - 1} \cup {PRICE + r : r \in RefundDeposits} :
        nft_buy("bob", sid, "bob", d, FALSE)

RdMintCreator ==
    \E sid \in DOMAIN token_series_by_id, d \in RefundDeposits :
        nft_mint_creator(OWNER, sid, "bob", d)

RdDrawAndMint ==
    \E index \in 0..(MaxSupplyRaffle - 1), d \in RefundDeposits :
        draw_and_mint("bob", "bob", d, index)

RdAddOg == add_og_account_id(OWNER, 1, "bob", 1)

RdMint ==
    \E sid \in DOMAIN token_series_by_id, d \in RefundDeposits : nft_mint("bob", sid, "bob", d)

RdMintAndApprove ==
    \E sid \in DOMAIN token_series_by_id, d \in RefundDeposits :
        nft_mint_and_approve(OWNER, sid, "bob", d)

NextRefund ==
    \/ RdCreateSeries
    \/ RdCreateSeriesCustom
    \/ RdBuy
    \/ RdMintCreator
    \/ RdDrawAndMint
    \/ RdAddOg
    \/ RdMint
    \/ RdMintAndApprove

SpecRefund == Init /\ [][NextRefund]_vars

\* the price a call charged: the series' price in nft_buy, nothing elsewhere
PriceCharged(call) == IF call.op = "nft_buy" THEN call.num ELSE 0

\* C32: a create or mint call with deposit D, price charged X and storage
\* cost S succeeds only if D - X >= S, and when D - X - S > 0 the caller is
\* refunded exactly D - X - S, a remainder of 1 yoctoNEAR included
C32_RefundExact ==
    [][(last'.op \in CreateOps \cup MintOps /\ last'.ok) =>
           LET remainder == last'.deposit - PriceCharged(last') - STORAGE_COST
           IN /\ remainder >= 0
              /\ remainder > 0 => last'.refund = remainder]_vars

(* ---------------------- specification: deployment --------------------- *)
\* the u16 current_fee arguments offered to Contract::new: none, the default,
\* the largest below the limit, the limit, and the largest u16
U16_MAX == 65535
NewFeeInputs == {0, DEFAULT_FEE, FEE_LIMIT - 1, FEE_LIMIT, U16_MAX}

\* Contract::new called with any current_fee
InitAnyFee == \E current_fee \in NewFeeInputs : new(MaxSupplyRaffle, current_fee)

\* list prices: one whose fee share rounds down to nothing, and PRICE
DeployPrices == {Some(U128(0, 1)), Some(U128(0, PRICE))}

DpSetTransactionFee ==
    \E next_fee \in {0, FEE_LIMIT - 1, FEE_LIMIT}, start_time \in {None, Some(1)} :
        set_transaction_fee(OWNER, 1, next_fee, start_time)

DpCreateSeries ==
    /\ Cardinality(DOMAIN token_series_by_id) < MaxBusySeries
    /\ CreateSeriesWith(GoodCreateArgs({Some(1)}, DeployPrices))

DpSetPrice ==
    \E sid \in DOMAIN token_series_by_id, price \in DeployPrices :
        nft_set_series_price(OWNER, 1, sid, price)

DpBuy ==
    \E sid \in DOMAIN token_series_by_id, overflow_checks \in BOOLEAN :
        nft_buy("bob", sid, "bob", PRICE + STORAGE_COST, overflow_checks)

NextDeploy ==
    \/ AdvanceTime
    \/ DpSetTransactionFee
    \/ DpCreateSeries
    \/ DpSetPrice
    \/ DpBuy

SpecDeploy == InitAnyFee /\ [][NextDeploy]_vars

\* C33: in every reachable state, whatever current_fee Contract::new was
\* given, the global current_fee and every per-series fee snapshot are below
\* 10,000 basis points
C33_FeesBelowLimit ==
    /\ transaction_fee.current_fee < FEE_LIMIT
    /\ \A s \in DOMAIN market_data_transaction_fee :
           market_data_transaction_fee[s] < FEE_LIMIT

\* C34: when set_transaction_fee(next2, Some(t2)) succeeds while an earlier
\* change (next1, t1) is pending and due (now >= t1), the call leaves
\* current_fee = next1 with (next2, t2) pending
C34_DueChangeKept ==
    [][(/\ last'.op = "set_transaction_fee" /\ last'.ok
        /\ IsSome(last'.args[2])
        /\ IsSome(transaction_fee.next_fee)
        /\ to_sec(block_timestamp) >= Unwrap(transaction_fee.start_time)) =>
           /\ transaction_fee'.current_fee = Unwrap(transaction_fee.next_fee)
           /\ transaction_fee'.next_fee = Some(last'.num)
           /\ transaction_fee'.start_time = last'.args[2]]_vars

\* C35: in every successful nft_buy of a series with price P and fee
\* snapshot f the treasury amount is floor(P * f / 10000) and at most P, the
\* creator amount is P less the treasury amount and not negative, the two
\* sum to P, and no transfer to the treasury is issued when its amount is 0
C35_BuySplit ==
    (last.op = "nft_buy" /\ last.ok) =>
        LET P == last.num
            f == market_data_transaction_fee[last.sid]
            to_treasury == {i \in DOMAIN last.transfers :
                               last.transfers[i].receiver_id = TREASURY}
        IN /\ last.treasury = (P * f) \div BPS_DENOM
           /\ last.treasury <= P
           /\ last.creator = P - last.treasury
           /\ last.creator >= 0
           /\ last.treasury + last.creator = P
           /\ last.treasury = 0 => to_treasury = {}

(* ---------------------- specification: OG list ------------------------ *)
\* the owner and another account both try every call that touches the list
OgCreateSeries ==
    /\ Cardinality(DOMAIN token_series_by_id) < MaxBusySeries
    /\ CreateSeriesWith(GoodCreateArgs({None}, {None}))

OgAddOg == \E caller \in Accounts : add_og_account_id(caller, 1, "bob", 1)

OgRemoveOg == \E caller \in Accounts : remove_og_account_id(caller, 1, "bob")

OgMint ==
    \E caller \in Accounts, sid \in DOMAIN token_series_by_id :
        nft_mint(caller, sid, caller, STORAGE_COST)

OgDecress ==
    \E account_id \in Accounts, balance_mint_og \in {0, 1, 2}, overflow_checks \in BOOLEAN :
        DecressBalanceOg("bob", account_id, balance_mint_og, overflow_checks)

NextOg ==
    \/ OgCreateSeries
    \/ OgAddOg
    \/ OgRemoveOg
    \/ OgMint
    \/ OgDecress

SpecOg == Init /\ [][NextOg]_vars

\* C36: the allowance get_og_balance reports for an account changes only in
\* a successful add_og_account_id or remove_og_account_id made by the owner,
\* or by going down by exactly 1 in that account's own successful nft_mint;
\* and no successful call made by another account than the owner takes an
\* allowance from 0 to a positive value (whence an account cannot mint more
\* often than the owner allowed it)
C36_AllowanceGuarded ==
    [][\A a \in Accounts :
         /\ get_og_balance(a)' # get_og_balance(a) =>
              \/ /\ last'.op \in {"add_og_account_id", "remove_og_account_id"}
                 /\ last'.ok /\ last'.caller = OWNER
              \/ /\ last'.op = "nft_mint" /\ last'.ok /\ last'.caller = a
                 /\ get_og_balance(a)' = get_og_balance(a) - 1
         /\ (last'.caller # OWNER /\ get_og_balance(a) = 0) => get_og_balance(a)' = 0]_vars

(* ------------------------ specification: views ------------------------ *)
\* one series is filled, its instances are burned one by one, and its
\* instances are listed page by page
VwCreateSeries ==
    /\ Cardinality(DOMAIN token_series_by_id) < MaxBusySeries
    /\ CreateSeriesWith(GoodCreateArgs({Some(MaxCopies)}, {None}))

VwMintCreator ==
    \E sid \in DOMAIN token_series_by_id, receiver_id \in Accounts :
        nft_mint_creator(OWNER, sid, receiver_id, STORAGE_COST)

VwBurn ==
    \E token_id \in DOMAIN owner_by_id : nft_burn(owner_by_id[token_id], 1, token_id)

VwToken == \E token_id \in TokenArgs : NftToken("bob", token_id)

VwTokensBySeries ==
    \E sid \in SeriesArgs, from_index \in {None} \cup {Some(i) : i \in 0..MaxCopies},
       limit \in {None, Some(0), Some(1)} :
        nft_tokens_by_series("bob", sid, from_index, limit)

NextViews ==
    \/ VwCreateSeries
    \/ VwMintCreator
    \/ VwBurn
    \/ VwToken
    \/ VwTokensBySeries

SpecViews == Init /\ [][NextViews]_vars

\* C37: nft_tokens_by_series(s, from_index, limit) succeeds for every
\* existing series s whenever from_index is below the minted count of s and
\* the limit is not 0, also after instances of s have been burned
C37_TokensBySeries ==
    (/\ last.op = "nft_tokens_by_series"
     /\ last.sid \in DOMAIN token_series_by_id
     /\ UnwrapOr(last.args[2], 0) < Len(token_series_by_id[last.sid].tokens)
     /\ last.args[3] # Some(0)) => last.ok

(* ------------------ specification: custom identifiers ----------------- *)
\* explicit identifiers without and with the delimiter
ColonIds == {<<"7">>, <<"1", TOKEN_DELIMETER, "2">>}

\* an automatic series "T" with a cap and royalties for bob, and custom
\* series "U" without cap whose royalties go to the treasury account
CuCreateSeries ==
    /\ Cardinality(DOMAIN token_series_by_id) < MaxSeries
    /\ CreateSeriesWith({CreateArg(OWNER, None, Some("T"), Some(MaxCopies), None,
                                   Some([bob |-> 1000]), STORAGE_COST)})

CuCreateSeriesCustom ==
    /\ Cardinality(DOMAIN token_series_by_id) < MaxSeries
    /\ CreateSeriesCustomWith(ColonIds,
           {CreateArg(OWNER, None, Some("U"), None, None, Some([treasury |-> 500]),
                      STORAGE_COST)})

CuMintCreator ==
    \E sid \in DOMAIN token_series_by_id : nft_mint_creator(OWNER, sid, "bob", STORAGE_COST)

CuToken == \E token_id \in DOMAIN owner_by_id : NftToken("bob", token_id)

CuPayout ==
    \E token_id \in DOMAIN owner_by_id : nft_payout("bob", token_id, 100, 10, FALSE)

CuTransferPayout ==
    \E token_id \in DOMAIN owner_by_id :
        nft_transfer_payout(owner_by_id[token_id], 1, OWNER, token_id, None,
                            Some(100), Some(10), FALSE)

NextCustom ==
    \/ CuCreateSeries
    \/ CuCreateSeriesCustom
    \/ CuMintCreator
    \/ CuToken
    \/ CuPayout
    \/ CuTransferPayout

SpecCustom == Init /\ [][NextCustom]_vars

\* the series whose mint returned the token
MintedFrom(token_id) ==
    CHOOSE s \in DOMAIN minted_log : token_id \in Range(minted_log[s])

\* C38: for every live instance the text before the first ':' of its
\* identifier is the series it was minted from, whatever identifiers the two
\* creation calls accepted; nft_token and nft_payout on a live instance
\* therefore succeed, nft_token shows the copies and title of the minting
\* series, and the payouts of nft_payout and nft_transfer_payout go to the
\* owner and to the royalty accounts of the minting series only
C38_SeriesOfInstance ==
    /\ \A t \in DOMAIN owner_by_id : SplitFirst(t) = MintedFrom(t)
    /\ (last.op \in {"nft_token", "nft_payout", "nft_transfer_payout"}
        /\ last.args[1] \in DOMAIN owner_by_id) =>
           LET minting == token_series_by_id[MintedFrom(last.args[1])]
           IN /\ last.op # "nft_transfer_payout" => last.ok
              /\ last.op = "nft_token" =>
                     /\ Unwrap(last.ret).copies = minting.metadata.copies
                     /\ Head(Unwrap(last.ret).title) = Unwrap(minting.metadata.title)
              /\ (last.op # "nft_token" /\ last.ok) =>
                     DOMAIN last.payout \subseteq
                         DOMAIN minting.royalty \cup {last.before[last.args[1]]}

\* C39: the lottery mints at most one instance from any series (in the
\* draw-pool specification every mint is a lottery mint): a successful
\* draw_and_mint mints from a series no earlier draw has minted from, names
\* that series in the returned identifier, and lowers get_raffle_length by
\* exactly 1; a draw_and_mint that fails leaves the length as it was
C39_LotteryOncePerSeries ==
    /\ [](\A s \in DOMAIN minted_log : MintCount(s) <= 1)
    /\ [][(last'.op = "draw_and_mint" /\ last'.ok) =>
             /\ get_raffle_length' = get_raffle_length - 1
             /\ MintCount(last'.sid) = 0
             /\ SplitFirst(last'.ret) = last'.sid]_vars
    /\ [][(last'.op = "draw_and_mint" /\ ~last'.ok) =>
             get_raffle_length' = get_raffle_length]_vars

\* two draws have succeeded, the second just now: two series hold one
\* lottery instance each and the pool is two shorter than it was
C39_Witness ==
    /\ last.op = "draw_and_mint" /\ last.ok
    /\ get_raffle_length = RafflePool - 2
    /\ Cardinality({s \in DOMAIN minted_log : MintCount(s) = 1}) = 2
    /\ Cardinality(DOMAIN owner_by_id) = 2

\* what a successful mint of instance t from series s leaves alone in the
\* registry, the fee state and the ledger of the existing instances
MintLeavesRest(s, t) ==
    /\ DOMAIN token_series_by_id' = DOMAIN token_series_by_id
    /\ \A x \in DOMAIN token_series_by_id \ {s} :
           token_series_by_id'[x] = token_series_by_id[x]
    /\ token_series_by_id'[s].price = token_series_by_id[s].price
    /\ token_series_by_id'[s].royalty = token_series_by_id[s].royalty
    /\ token_series_by_id'[s].metadata = token_series_by_id[s].metadata
    /\ token_series_by_id'[s].creator_id = token_series_by_id[s].creator_id
    /\ token_series_by_id'[s].tokens = Append(token_series_by_id[s].tokens, t)
    /\ transaction_fee' = transaction_fee
    /\ market_data_transaction_fee' = market_data_transaction_fee
    /\ t \notin DOMAIN owner_by_id
    /\ DOMAIN owner_by_id' = DOMAIN owner_by_id \cup {t}
    /\ \A x \in DOMAIN owner_by_id : owner_by_id'[x] = owner_by_id[x]
    /\ \A a \in DOMAIN tokens_per_owner :
           a \in DOMAIN tokens_per_owner' /\ tokens_per_owner'[a] \ {t} = tokens_per_owner[a]
    /\ \A a \in DOMAIN tokens_per_owner' \ DOMAIN tokens_per_owner : tokens_per_owner'[a] = {t}
    /\ \A x \in DOMAIN approvals_by_id :
           x \in DOMAIN approvals_by_id' /\ approvals_by_id'[x] = approvals_by_id[x]
    /\ DOMAIN approvals_by_id' \subseteq DOMAIN approvals_by_id \cup {t}
    /\ \A x \in DOMAIN next_approval_id_by_id :
           x \in DOMAIN next_approval_id_by_id'
           /\ next_approval_id_by_id'[x] = next_approval_id_by_id[x]
    /\ DOMAIN next_approval_id_by_id' \subseteq DOMAIN next_approval_id_by_id \cup {t}
    /\ token_series_id_minted' = token_series_id_minted + 1
    /\ seller_by_id' = seller_by_id

\* C40: a successful mint from series s changes only s's minted set and
\* mintable flag, the entries of the new instance (owner, owner index,
\* approval state) and the global minted counter: every other series record,
\* the price and royalty map of s, the fee schedule, the fee snapshots, the
\* ownership of the existing instances and all other contract state stay as
\* they were
C40_MintFrame ==
    [][(last'.ok /\ last'.op \in MintOps) =>
           /\ MintLeavesRest(last'.sid, last'.ret)
           /\ raffle' = raffle
           /\ account_id_og' = account_id_og]_vars

\* C40, as it holds: besides the above, a successful draw_and_mint takes the
\* drawn index out of the pool and a successful nft_mint lowers the caller's
\* OG allowance by 1; the other mint calls change neither
C40_MintFrameHeld ==
    [][(last'.ok /\ last'.op \in MintOps) =>
           /\ MintLeavesRest(last'.sid, last'.ret)
           /\ IF last'.op = "draw_and_mint"
              THEN raffle' = raffle \ {last'.num} /\ last'.num \in raffle
              ELSE raffle' = raffle
           /\ IF last'.op = "nft_mint"
              THEN /\ account_id_og' = Put(account_id_og, last'.caller,
                                           account_id_og[last'.caller] - 1)
              ELSE account_id_og' = account_id_og]_vars

\* an nft_mint has just closed a capped, priced series and used up the
\* caller's allowance, while another series holds an instance of its own
C40_Witness ==
    /\ last.op = "nft_mint" /\ last.ok
    /\ account_id_og[last.caller] = 0
    /\ ~token_series_by_id[last.sid].is_mintable
    /\ IsSome(token_series_by_id[last.sid].price)
    /\ last.sid \in DOMAIN market_data_transaction_fee
    /\ \E x \in DOMAIN token_series_by_id \ {last.sid} : Len(token_series_by_id[x].tokens) = 1
    /\ Cardinality(DOMAIN owner_by_id) = 2

=============================================================================
